---- MODULE Spec2Model ----
(***************************************************************************)
(* Model of the leaderboard update cycle (src/scripts/cycle.js) and of the *)
(* safeWriteJSON primitive used by its stages (src/scripts/cleaner.js,     *)
(* publisher.js, purger.js, scraper.js).                                   *)
(*                                                                         *)
(* Spec       the cycle orchestrator: invocations of cycle() interleaved   *)
(*            at their awaits, the lock file, the clock, process crashes.  *)
(* SpecWrite  successive safeWriteJSON calls on one path, with I/O errors  *)
(*            and process crashes at every step.                           *)
(* SpecCleaner  repeated cleanup() runs over a submission queue while the  *)
(*            item database gains and loses keys.                          *)
(* SpecPublish  publish() calls over an item database, the write of        *)
(*            books.json going through the steps of safeWriteJSON.         *)
(* SpecPurge  purge() runs over an item database and a blacklist file.     *)
(* SpecScrape  successive acquisitions stored into the item database.      *)
(* SpecRun    the four stages of one cycle on one set of documents.        *)
(* SpecSubmit  two POST /submit-url requests interleaved at their awaits.  *)
(* SpecHandlers  the standalone handlers of server.js beside one cycle.    *)
(* SpecAcquire  scrape() over a submission queue, write by write.          *)
(* SpecFetch  fetchPage() for one submission: requests, retries, timers.   *)
(* SpecFetchLive  the same with endless redirect chains and fair endings.  *)
(* SpecMatch  isAuthorMatch and isBlacklisted on one name and one entry.   *)
(***************************************************************************)
EXTENDS Integers, Sequences, FiniteSets, TLC

\* ------------------------------------------------------------------ bounds
MaxTicks == 3
MaxCalls == 2
MaxQueue == 2
MaxRuns == 4
MaxBooks == 2
MaxHops == 1
MaxDestroyErrors == 2

\* --------------------------------------------------------------- constants
StaleCeiling == 3600000
maxRetries == 5
baseDelay == 5000
TickMs == StaleCeiling \div 2

\* The invocations of cycle() that may be in flight in the one Node process.
Inv == {"a", "b"}

VARIABLES
    now,        \* Date.now(), in ms since the model's epoch
    lock,       \* cycle.lock: [exists, mtime]
    docs,       \* the documents other than metadata.json that exist
    meta,       \* metadata.json: [state, error] of its cycle_status
    lastWriter, \* the invocation whose write produced the current meta
    pc,         \* position of each invocation inside cycle()
    err,        \* the error caught by the inner catch of each invocation
    result,     \* the value each invocation returns
    created,    \* ghost: the invocation got past createLock
    released,   \* ghost: the invocation's releaseLock removed the lock file
    tookOver,   \* ghost: the invocation's lock check unlinked a stale lock
    stageLog,   \* ghost: the stages the invocation has started, in order
    failedAt,   \* ghost: number of stages started when a stage failed, or 0
    persisted,  \* ghost: the cycle_status states the invocation has written
    writes,     \* ghost: the documents the invocation has written
    faults,     \* ghost: the points at which a failure hit the invocation
    wpath,      \* safeWriteJSON: content of filePath
    wbackup,    \* content of filePath + ".backup"
    wtemp,      \* content of filePath + ".temp"
    wpc,        \* position inside the running safeWriteJSON call
    wvariant,   \* which safeWriteJSON is running: "atomic" or "direct"
    wpre,       \* ghost: content of filePath when the call started
    wdata,      \* the document the call is asked to write
    wcur,       \* currentData, as read for the backup
    wfailAt,    \* ghost: the step whose error entered the catch block
    wrestore,   \* ghost: "none", "ok" or "failed" restore from backup
    wthrown,    \* the error the call throws: "none", "orig", "restore"
    wout,       \* how the last call ended: "none","ok","threw","crashed"
    wcalls      \* number of calls started

cvars == <<now, lock, docs, meta, lastWriter, pc, err, result, created,
           released, tookOver, stageLog, failedAt, persisted, writes, faults>>

wvars == <<wpath, wbackup, wtemp, wpc, wvariant, wpre, wdata, wcur, wfailAt,
           wrestore, wthrown, wout, wcalls>>

\* the submission cleaner (cleanup() in its two source variants)
VARIABLES
    clVariant,    \* which cleanup() runs: "scripts/cleaner.js" or "part_001"
    clInput,      \* input.json: the sequence of submissions [url, fa]
    clBooks,      \* the keys of metadata.books
    clLog,        \* cleanup_log.json: cleaned_entries, as [url, reason]
    clResult,     \* success flag of the last cleanup() call
    clRunCount,   \* number of cleanup() calls made
    clAbsentRuns, \* ghost: per url, successful runs that found its key absent
    clEverPresent,\* ghost: per url, some successful run found its key present
    clLastSeen    \* ghost: per url, what the last successful run found

clvars == <<clVariant, clInput, clBooks, clLog, clResult, clRunCount,
            clAbsentRuns, clEverPresent, clLastSeen>>

\* the publication stage (publish() of publisher.js)
VARIABLES
    pbMetadata,   \* <root>/metadata.json: [readable, books], books in key order
    pbPc,         \* position inside publish(): "idle", "writing", "done"
    pbResult,     \* the value the last publish() returned: [success, error]
    pbOutput,     \* the validated output handed to safeWriteJSON
    pbPublished   \* ghost: the outputs written so far, by safeWriteJSON call

pbvars == <<pbMetadata, pbPc, pbResult, pbOutput, pbPublished>>

\* the filter stage (purge() in its two source variants)
VARIABLES
    puVariant,    \* which purge() runs: "scripts/purger.js" or "part_003"
    puBlacklist,  \* blacklist.json: [state, doc]
    puBooks,      \* metadata.books of DATA_DIR/metadata.json, in key order
    puBrownlist,  \* brownlist.json: rejected_books
    puResult,     \* the value the last purge() returned
    puRunCount,   \* number of purge() calls made
    puPre,        \* ghost: metadata.books when the last purge() started
    puOutcome,    \* ghost: per item of puPre, what isBlacklisted returned
    puFault       \* ghost: the I/O failure of the last run: "none", "read", "write"

puvars == <<puVariant, puBlacklist, puBooks, puBrownlist, puResult,
            puRunCount, puPre, puOutcome, puFault>>

\* the acquisition stage (the upsert of a scraped item)
VARIABLES
    scVariant,    \* which acquisition loop runs
    scBooks,      \* metadata.books, as entries in key order
    scClock,      \* new Date(), counted in processed submissions
    scFirst,      \* ghost: per key, the time of its first success
    scLater       \* ghost: per key, {timestamp, bsr} of its later successes

scvars == <<scVariant, scBooks, scClock, scFirst, scLater>>

\* the four stages of one cycle run in sequence on one set of documents
VARIABLES
    ruPc,         \* the stage to run next, or "done" / "failed"
    ruSameDir,    \* DATA_DIR is the directory publish() reads and writes
    ruInput,      \* DATA_DIR/input.json: the submissions
    ruBooks,      \* DATA_DIR/metadata.json: metadata.books
    ruRootBooks,  \* <root>/metadata.json as publish() finds it
    ruBlacklist,  \* DATA_DIR/blacklist.json
    ruAcquired,   \* per url, what scrapeBook() returns in this cycle
    ruPublished,  \* <root>/books.json
    ruFault,      \* ghost: the stage that was hit by an I/O failure
    ruStart       \* ghost: queue and item database when the cycle started

ruvars == <<ruPc, ruSameDir, ruInput, ruBooks, ruRootBooks, ruBlacklist,
            ruAcquired, ruPublished, ruFault, ruStart>>

\* POST /submit-url: requests interleaved at their awaits
VARIABLES
    sbFile,     \* <root>/input.json: [kind, subs]
    sbBackup,   \* <root>/input.json.backup
    sbLimiter,  \* isLimiterEnabled
    sbReq,      \* per request: url, ip and bypassLimiter of req.body
    sbPc,       \* position of each request inside the handler
    sbJson,     \* json.submissions as the handler holds it
    sbCur,      \* currentData / backup as safeWriteJSON read it
    sbAttempt,  \* attempt of the retry loop of safeWriteJSON
    sbAnswer    \* what res.json() answered, or "none"

sbvars == <<sbFile, sbBackup, sbLimiter, sbReq, sbPc, sbJson, sbCur,
            sbAttempt, sbAnswer>>

\* the standalone handlers of server.js beside one running cycle
VARIABLES
    hdSameDir,          \* DATA_DIR is the directory of server.js
    hdLock,             \* cycle.lock exists
    hdCyclePc,          \* position of the cycle
    hdStage,            \* number of stages the cycle has finished
    hdRoute,            \* the route of the request in flight, or "none"
    hdStep,             \* number of stage functions the handler has awaited
    hdRequests,         \* requests received so far
    hdPublishAttempts,  \* publishRateLimiter.attempts of the caller
    hdWriter,           \* per document, who wrote it last
    hdOverlap           \* ghost: documents a handler wrote under the lock

hdvars == <<hdSameDir, hdLock, hdCyclePc, hdStage, hdRoute, hdStep,
            hdRequests, hdPublishAttempts, hdWriter, hdOverlap>>

\* scrape(): the acquisition loop over the queue, with its writes of
\* metadata.json, I/O failures and a process crash
VARIABLES
    aqVariant,    \* which scrape() runs: "scraper.js:442" or "scraper.js:1165"
    aqQueue,      \* inputData.submissions: the url of each submission
    aqMem,        \* the keys of metadata.books in memory
    aqDisk,       \* DATA_DIR/metadata.json: [kind, keys]
    aqPc,         \* position inside scrape()
    aqIndex,      \* the submission being processed (1-based)
    aqClass,      \* ghost: per submission, how scrapeBook classified it
    aqPage,       \* ghost: per submission, what fetchPage gave
    aqRequested,  \* ghost: the submissions for which fetchPage was called
    aqFaults,     \* ghost: the phases in which an I/O operation failed, the crash
    aqResult      \* what scrape() returned: "none", "success", "failure"

aqvars == <<aqVariant, aqQueue, aqMem, aqDisk, aqPc, aqIndex, aqClass,
            aqPage, aqRequested, aqFaults, aqResult>>

\* fetchPage(url) of scraper.js:75 for one submission: the requests it
\* issues, their retry timers and the promise scrapeBook awaits
VARIABLES
    fpOut,            \* per retryCount, the requests outstanding
    fpTimers,         \* per retryCount, the handlers inside await delay(...)
    fpIssued,         \* ghost: per retryCount, the requests issued so far
    fpWaited,         \* ghost: per retryCount, the delay waited before a retry
    fpKinds,          \* ghost: how the requests ended so far
    fpHops,           \* redirect hops followed
    fpDestroyErrors,  \* timeouts whose destroy() fired the error handler
    fpSettled,        \* the promise of the first call: "pending", ...
    fpClass,          \* what scrapeBook returned, or "none"
    fpUrl             \* where the next request goes: the submitted URL or
                      \* the location of a redirect

fpvars == <<fpOut, fpTimers, fpIssued, fpWaited, fpKinds, fpHops,
            fpDestroyErrors, fpSettled, fpClass, fpUrl>>

\* isAuthorMatch and isBlacklisted of purger.js applied to one author name
\* and one entry of blacklist.authors
VARIABLES
    maAuthor,   \* book.author
    maEntry,    \* the entry of blacklist.authors
    maPc,       \* "input", then "done"
    maResult,   \* what isAuthorMatch(book.author, entry) returned
    maVerdict   \* what isBlacklisted(book, {authors: [entry]}) returned

mavars == <<maAuthor, maEntry, maPc, maResult, maVerdict>>

stagevars == <<mavars, fpvars, aqvars, clvars, pbvars, puvars, scvars, ruvars, sbvars, hdvars>>

\* what the actions of one stage leave alone
clFrame == <<mavars, fpvars, aqvars, sbvars, hdvars, cvars, wvars, pbvars, puvars, scvars, ruvars>>
pbFrame == <<mavars, fpvars, aqvars, sbvars, hdvars, cvars, clvars, puvars, scvars, ruvars>>
puFrame == <<mavars, fpvars, aqvars, sbvars, hdvars, cvars, wvars, clvars, pbvars, scvars, ruvars>>
scFrame == <<mavars, fpvars, aqvars, sbvars, hdvars, cvars, wvars, clvars, pbvars, puvars, ruvars>>
ruFrame == <<mavars, fpvars, aqvars, sbvars, hdvars, cvars, wvars, clvars, pbvars, puvars, scvars>>

sbFrame == <<mavars, fpvars, aqvars, cvars, wvars, clvars, pbvars, puvars, scvars, ruvars, hdvars>>
hdFrame == <<mavars, fpvars, aqvars, cvars, wvars, clvars, pbvars, puvars, scvars, ruvars, sbvars>>

aqFrame == <<mavars, fpvars, clvars, cvars, hdvars, pbvars, puvars, ruvars, sbvars, scvars, wvars>>

fpFrame == <<mavars, aqvars, clvars, cvars, hdvars, pbvars, puvars, ruvars, sbvars, scvars, wvars>>

maFrame == <<aqvars, clvars, cvars, fpvars, hdvars, pbvars, puvars, ruvars, sbvars, scvars, wvars>>

vars == <<cvars, wvars, stagevars>>

ghosts == <<created, released, tookOver, stageLog, failedAt, persisted,
            writes, faults>>

\* cycle.lock: whether it exists, its mtime, and (kept for the record only,
\* the file does not hold it) the invocation whose createLock wrote it
NoLock == [exists |-> FALSE, mtime |-> 0, owner |-> "none"]

OtherDocs == {"input.json", "books.json", "brownlist.json", "cleanup_log.json"}

NoStatus == [state |-> "none", error |-> ""]
AbsentMeta == [state |-> "absent", error |-> ""]
CorruptMeta == [state |-> "corrupt", error |-> ""]

Pending == [success |-> FALSE, error |-> "", stats |-> "none", threw |-> FALSE]
LockedResult == [success |-> FALSE, error |-> "CYCLE_LOCKED", stats |-> "none",
                 threw |-> FALSE]
CriticalResult(msg) == [success |-> FALSE, error |-> msg, stats |-> "N/A",
                        threw |-> FALSE]
FailureResult(msg) == [success |-> FALSE, error |-> msg, stats |-> "partial",
                       threw |-> FALSE]
SuccessResult == [success |-> TRUE, error |-> "", stats |-> "stats",
                  threw |-> FALSE]
Thrown(msg) == [success |-> FALSE, error |-> msg, stats |-> "none",
                threw |-> TRUE]

\* cycle.js:49  lockAge > 3600000
IsStaleTenfold(age) == age > 10 * StaleCeiling
IsStaleInclusive(age) == age >= StaleCeiling
IsStale(age) == age > StaleCeiling

\* cycle.js:304-350  the order in which cycle() awaits its stages
StageOrder == <<"scrape", "purge", "cleanup", "publish">>

StageError(s) ==
    CASE s = "scrape" -> "Scrape failed"
      [] s = "purge" -> "Purge failed"
      [] s = "cleanup" -> "Cleanup failed"
      [] OTHER -> "Publish failed"

\* the documents each stage writes through its safeWriteJSON
StageWrites(s) ==
    CASE s = "scrape" -> {"metadata.json"}
      [] s = "purge" -> {"metadata.json", "brownlist.json"}
      [] s = "cleanup" -> {"input.json", "cleanup_log.json"}
      [] OTHER -> {"books.json"}

\* cycle.js:308-350  if (!result.success) throw ...; otherwise go on
AfterStageIgnoring(k, ok) ==
    IF k = Len(StageOrder) THEN "persistCompleted" ELSE "stage"
AfterStage(k, ok) ==
    IF ~ok THEN "fail"
    ELSE IF k = Len(StageOrder) THEN "persistCompleted" ELSE "stage"

\* cycle.js:65-85  releaseLock swallows every error of access/unlink
ReleaseResultRethrow(r, unlinkFailed) ==
    IF unlinkFailed THEN Thrown("unlink failed") ELSE r
ReleaseResult(r, unlinkFailed) == r

\* cycle.js:388-400  what the failure handler leaves in metadata.json
FailedStatus(m, msg, writeOk) ==
    IF writeOk THEN [state |-> "failed", error |-> msg] ELSE m

Set(f, i, v) == [f EXCEPT ![i] = v]

\* ------------------------------------------------------------------- Init
CycleInit ==
    /\ now = 0
    /\ lock = NoLock
    /\ \/ docs = OtherDocs /\ meta = NoStatus
       \/ docs = OtherDocs \ {"input.json"} /\ meta = NoStatus
       \/ docs = {"input.json"} /\ meta = AbsentMeta
    /\ lastWriter = "none"
    /\ pc = [i \in Inv |-> "idle"]
    /\ err = [i \in Inv |-> ""]
    /\ result = [i \in Inv |-> Pending]
    /\ created = [i \in Inv |-> FALSE]
    /\ released = [i \in Inv |-> FALSE]
    /\ tookOver = [i \in Inv |-> FALSE]
    /\ stageLog = [i \in Inv |-> <<>>]
    /\ failedAt = [i \in Inv |-> 0]
    /\ persisted = [i \in Inv |-> <<>>]
    /\ writes = [i \in Inv |-> {}]
    /\ faults = [i \in Inv |-> {}]

\* ---------------------------------------------------------------- actions
\* POST /cycle or run-cycle.js calls cycle()
Invoke(i) ==
    /\ pc[i] = "idle"
    /\ pc' = Set(pc, i, "access")
    /\ err' = Set(err, i, "")
    /\ result' = Set(result, i, Pending)
    /\ created' = Set(created, i, FALSE)
    /\ released' = Set(released, i, FALSE)
    /\ tookOver' = Set(tookOver, i, FALSE)
    /\ stageLog' = Set(stageLog, i, <<>>)
    /\ failedAt' = Set(failedAt, i, 0)
    /\ persisted' = Set(persisted, i, <<>>)
    /\ writes' = Set(writes, i, {})
    /\ faults' = Set(faults, i, {})
    /\ UNCHANGED <<now, lock, docs, meta, lastWriter>>
    /\ UNCHANGED <<wvars, stagevars>>

\* isCycleLocked: await fs.access(LOCK_FILE); a missing file lands in catch
LockAccess(i) ==
    /\ pc[i] = "access"
    /\ pc' = Set(pc, i, IF lock.exists THEN "stat" ELSE "create")
    /\ UNCHANGED <<now, lock, docs, meta, lastWriter, err, result, ghosts>>
    /\ UNCHANGED <<wvars, stagevars>>

\* isCycleLocked: await fs.stat(LOCK_FILE); lockAge = Date.now() - mtime
LockStat(i) ==
    /\ pc[i] = "stat"
    /\ IF ~lock.exists
       THEN /\ pc' = Set(pc, i, "create")
            /\ UNCHANGED result
       ELSE IF IsStale(now - lock.mtime)
       THEN /\ pc' = Set(pc, i, "unlink")
            /\ UNCHANGED result
       ELSE /\ pc' = Set(pc, i, "done")
            /\ result' = Set(result, i, LockedResult)
    /\ UNCHANGED <<now, lock, docs, meta, lastWriter, err, ghosts>>
    /\ UNCHANGED <<wvars, stagevars>>

\* isCycleLocked: await fs.unlink(LOCK_FILE); return false (also from catch)
LockUnlink(i) ==
    /\ pc[i] = "unlink"
    /\ lock' = NoLock
    /\ tookOver' = Set(tookOver, i, lock.exists)
    /\ pc' = Set(pc, i, "create")
    /\ UNCHANGED <<now, docs, meta, lastWriter, err, result, created,
                   released, stageLog, failedAt, persisted, writes, faults>>
    /\ UNCHANGED <<wvars, stagevars>>

\* createLock: await fs.writeFile(LOCK_FILE, ...); a throw reaches the
\* outer catch of cycle()
CreateLock(i) ==
    /\ pc[i] = "create"
    /\ \/ /\ lock' = [exists |-> TRUE, mtime |-> now, owner |-> i]
          /\ created' = Set(created, i, TRUE)
          /\ pc' = Set(pc, i, "init")
          /\ UNCHANGED <<result, faults>>
       \/ /\ faults' = Set(faults, i, faults[i] \cup {"create"})
          /\ result' = Set(result, i, CriticalResult("write failed"))
          /\ pc' = Set(pc, i, "done")
          /\ UNCHANGED <<lock, created>>
    /\ UNCHANGED <<now, docs, meta, lastWriter, err, released, tookOver,
                   stageLog, failedAt, persisted, writes>>
    /\ UNCHANGED <<wvars, stagevars>>

\* initializeFiles, called outside the inner try: a throw reaches the outer
\* catch, which returns without releasing the lock
InitializeFiles(i) ==
    /\ pc[i] = "init"
    /\ \/ /\ "input.json" \notin docs
          /\ faults' = Set(faults, i, faults[i] \cup {"init"})
          /\ result' = Set(result, i, CriticalResult("Missing input.json"))
          /\ pc' = Set(pc, i, "done")
          /\ UNCHANGED <<docs, meta, lastWriter, writes>>
       \/ /\ "input.json" \in docs
          /\ docs' = OtherDocs
          /\ meta' = IF meta.state = "absent" THEN NoStatus ELSE meta
          /\ lastWriter' = IF meta.state = "absent" THEN i ELSE lastWriter
          /\ writes' = Set(writes, i, writes[i] \cup (OtherDocs \ docs) \cup
                         (IF meta.state = "absent" THEN {"metadata.json"} ELSE {}))
          /\ pc' = Set(pc, i, "persistRunning")
          /\ UNCHANGED <<result, faults>>
       \/ /\ "input.json" \in docs
          /\ faults' = Set(faults, i, faults[i] \cup {"init"})
          /\ result' = Set(result, i, CriticalResult("io error"))
          /\ pc' = Set(pc, i, "done")
          /\ UNCHANGED <<docs, meta, lastWriter, writes>>
    /\ UNCHANGED <<now, lock, err, created, released, tookOver, stageLog,
                   failedAt, persisted>>
    /\ UNCHANGED <<wvars, stagevars>>

\* loadMetadata; metadata.cycle_status = {state:'running'}; safeWriteJSON.
\* The write is cycle.js's own safeWriteJSON, which writes the target in
\* place: a failed write leaves metadata.json as it was or corrupt.
PersistRunning(i) ==
    /\ pc[i] = "persistRunning"
    /\ \/ /\ meta' = [state |-> "running", error |-> ""]
          /\ lastWriter' = i
          /\ persisted' = Set(persisted, i, Append(persisted[i], "running"))
          /\ writes' = Set(writes, i, writes[i] \cup {"metadata.json"})
          /\ pc' = Set(pc, i, "stage")
          /\ UNCHANGED <<err, faults>>
       \/ /\ \E m \in {meta, CorruptMeta} :
                /\ meta' = m
                /\ lastWriter' = IF m = meta THEN lastWriter ELSE i
          /\ faults' = Set(faults, i, faults[i] \cup {"status"})
          /\ err' = Set(err, i, "write failed")
          /\ pc' = Set(pc, i, "fail")
          /\ UNCHANGED <<persisted, writes>>
    /\ UNCHANGED <<now, lock, docs, result, created, released, tookOver,
                   stageLog, failedAt>>
    /\ UNCHANGED <<wvars, stagevars>>

\* const r = await <stage>() is entered
StageStart(i) ==
    /\ pc[i] = "stage"
    /\ stageLog' = Set(stageLog, i,
                       Append(stageLog[i], StageOrder[Len(stageLog[i]) + 1]))
    /\ pc' = Set(pc, i, "inStage")
    /\ UNCHANGED <<now, lock, docs, meta, lastWriter, err, result, created,
                   released, tookOver, failedAt, persisted, writes, faults>>
    /\ UNCHANGED <<wvars, stagevars>>

\* the stage's promise settles with {success: ok}
StageEnd(i) ==
    /\ pc[i] = "inStage"
    /\ \E ok \in BOOLEAN :
        LET k == Len(stageLog[i])
            s == stageLog[i][k]
        IN /\ pc' = Set(pc, i, AfterStage(k, ok))
           /\ writes' = Set(writes, i, writes[i] \cup StageWrites(s))
           /\ IF ok
              THEN UNCHANGED <<err, failedAt, faults>>
              ELSE /\ err' = Set(err, i, StageError(s))
                   /\ failedAt' = Set(failedAt, i, k)
                   /\ faults' = Set(faults, i, faults[i] \cup {"stage"})
    /\ UNCHANGED <<now, lock, docs, meta, lastWriter, result, created,
                   released, tookOver, stageLog, persisted>>
    /\ UNCHANGED <<wvars, stagevars>>

\* metadata.cycle_status = {state:'completed'}; safeWriteJSON; return success
PersistCompleted(i) ==
    /\ pc[i] = "persistCompleted"
    /\ \/ /\ meta' = [state |-> "completed", error |-> ""]
          /\ lastWriter' = i
          /\ persisted' = Set(persisted, i, Append(persisted[i], "completed"))
          /\ result' = Set(result, i, SuccessResult)
          /\ pc' = Set(pc, i, "release")
          /\ UNCHANGED <<err, faults>>
       \/ /\ \E m \in {meta, CorruptMeta} :
                /\ meta' = m
                /\ lastWriter' = IF m = meta THEN lastWriter ELSE i
          /\ faults' = Set(faults, i, faults[i] \cup {"status"})
          /\ err' = Set(err, i, "write failed")
          /\ pc' = Set(pc, i, "fail")
          /\ UNCHANGED <<persisted, result>>
    /\ UNCHANGED <<now, lock, docs, created, released, tookOver, stageLog,
                   failedAt, writes>>
    /\ UNCHANGED <<wvars, stagevars>>

\* cycle.js:291, 396  metadataPath is a const of the try block (291); the
\* catch block names it in safeWriteJSON(metadataPath, metadata) (396), where
\* it is out of scope: evaluating the argument throws a ReferenceError and
\* safeWriteJSON is never entered
FailedStatusWriteOutcomes == {FALSE}

\* inner catch: loadMetadata; cycle_status = {state:'failed', error};
\* safeWriteJSON inside try/catch(statusError), which only logs; return
\* failure
FailHandler(i) ==
    /\ pc[i] = "fail"
    /\ \E writeOk \in FailedStatusWriteOutcomes :
        /\ meta' = FailedStatus(meta, err[i], writeOk)
        /\ lastWriter' = IF writeOk THEN i ELSE lastWriter
        /\ persisted' = Set(persisted, i,
                IF writeOk THEN Append(persisted[i], "failed") ELSE persisted[i])
        /\ faults' = Set(faults, i,
                IF writeOk THEN faults[i] ELSE faults[i] \cup {"failstatus"})
    /\ writes' = Set(writes, i, writes[i] \cup {"metadata.json"})
    /\ result' = Set(result, i, FailureResult(err[i]))
    /\ pc' = Set(pc, i, "release")
    /\ UNCHANGED <<now, lock, docs, err, created, released, tookOver,
                   stageLog, failedAt>>
    /\ UNCHANGED <<wvars, stagevars>>

\* finally: await releaseLock(); then the pending return value is returned
ReleaseLock(i) ==
    /\ pc[i] = "release"
    /\ \/ /\ lock' = NoLock
          /\ released' = Set(released, i, TRUE)
          /\ result' = Set(result, i, ReleaseResult(result[i], FALSE))
          /\ UNCHANGED faults
       \/ /\ lock.exists
          /\ faults' = Set(faults, i, faults[i] \cup {"release"})
          /\ result' = Set(result, i, ReleaseResult(result[i], TRUE))
          /\ UNCHANGED <<lock, released>>
    /\ pc' = Set(pc, i, "done")
    /\ UNCHANGED <<now, docs, meta, lastWriter, err, created, tookOver,
                   stageLog, failedAt, persisted, writes>>
    /\ UNCHANGED <<wvars, stagevars>>

\* the caller has received the result; the slot can be invoked again
Return(i) ==
    /\ pc[i] = "done"
    /\ pc' = Set(pc, i, "idle")
    /\ UNCHANGED <<now, lock, docs, meta, lastWriter, err, result, ghosts>>
    /\ UNCHANGED <<wvars, stagevars>>

\* the Node process dies: every invocation in flight is gone, files stay
Crash ==
    /\ \E i \in Inv : pc[i] \notin {"idle", "done"}
    /\ pc' = [i \in Inv |-> "idle"]
    /\ UNCHANGED <<now, lock, docs, meta, lastWriter, err, result, ghosts>>
    /\ UNCHANGED <<wvars, stagevars>>

\* wall-clock time passes
Tick ==
    /\ now < MaxTicks * TickMs
    /\ now' = now + TickMs
    /\ UNCHANGED <<lock, docs, meta, lastWriter, pc, err, result, ghosts>>
    /\ UNCHANGED <<wvars, stagevars>>

\* ------------------------------------------------- safeWriteJSON (files)
Absent == [kind |-> "absent", ver |-> 0]
Partial == [kind |-> "partial", ver |-> 0]
Doc(n) == [kind |-> "doc", ver |-> n]

\* cleaner.js:13-67 and publisher.js:5-59 write a temp file and rename it;
\* cycle.js:190-216, purger.js:146-172 and scraper.js:341-367 write filePath
Variants == {"atomic", "direct"}

\* cleaner.js:48  fs.copyFile(backupPath, filePath)
RestoreSourceTemp(backup, temp) == temp
RestoreSource(backup, temp) == backup

WriteIdle ==
    /\ wpath = Doc(0)
    /\ wbackup = Absent
    /\ wtemp = Absent
    /\ wpc = "idle"
    /\ wvariant = "atomic"
    /\ wpre = Doc(0)
    /\ wdata = Doc(0)
    /\ wcur = Absent
    /\ wfailAt = "none"
    /\ wrestore = "none"
    /\ wthrown = "none"
    /\ wout = "none"
    /\ wcalls = 0

WriteInit ==
    /\ wpath \in {Absent, Doc(0)}
    /\ wbackup = Absent
    /\ wtemp = Absent
    /\ wpc = "idle"
    /\ wvariant = "atomic"
    /\ wpre = wpath
    /\ wdata = Doc(0)
    /\ wcur = Absent
    /\ wfailAt = "none"
    /\ wrestore = "none"
    /\ wthrown = "none"
    /\ wout = "none"
    /\ wcalls = 0

CycleIdle ==
    /\ now = 0
    /\ lock = NoLock
    /\ docs = OtherDocs
    /\ meta = NoStatus
    /\ lastWriter = "none"
    /\ pc = [i \in Inv |-> "idle"]
    /\ err = [i \in Inv |-> ""]
    /\ result = [i \in Inv |-> Pending]
    /\ created = [i \in Inv |-> FALSE]
    /\ released = [i \in Inv |-> FALSE]
    /\ tookOver = [i \in Inv |-> FALSE]
    /\ stageLog = [i \in Inv |-> <<>>]
    /\ failedAt = [i \in Inv |-> 0]
    /\ persisted = [i \in Inv |-> <<>>]
    /\ writes = [i \in Inv |-> {}]
    /\ faults = [i \in Inv |-> {}]

\* an error thrown inside the outer try of safeWriteJSON: the atomic variant
\* enters its restore block, the direct variant logs and rethrows
SafeWriteFail(at) ==
    /\ wfailAt' = at
    /\ IF wvariant = "atomic"
       THEN /\ wpc' = "catch"
            /\ UNCHANGED <<wthrown, wout>>
       ELSE /\ wpc' = "idle"
            /\ wthrown' = "orig"
            /\ wout' = "threw"

\* a stage calls safeWriteJSON(filePath, data)
SafeWriteCall ==
    /\ wpc = "idle"
    /\ wcalls < MaxCalls
    /\ \E v \in Variants : wvariant' = v
    /\ wcalls' = wcalls + 1
    /\ wpre' = wpath
    /\ wdata' = Doc(wcalls + 1)
    /\ wcur' = Absent
    /\ wfailAt' = "none"
    /\ wrestore' = "none"
    /\ wthrown' = "none"
    /\ wout' = "none"
    /\ wpc' = "read"
    /\ UNCHANGED <<wpath, wbackup, wtemp>>
    /\ UNCHANGED <<cvars, stagevars>>

\* const currentData = await fs.readFile(filePath); ENOENT skips the backup
SafeWriteRead ==
    /\ wpc = "read"
    /\ \/ /\ wpath = Absent
          /\ wpc' = IF wvariant = "atomic" THEN "temp" ELSE "write"
          /\ UNCHANGED <<wcur, wfailAt, wthrown, wout>>
       \/ /\ wpath # Absent
          /\ wcur' = wpath
          /\ wpc' = "backup"
          /\ UNCHANGED <<wfailAt, wthrown, wout>>
       \/ /\ wpath # Absent
          /\ SafeWriteFail("read")
          /\ UNCHANGED wcur
    /\ UNCHANGED <<wpath, wbackup, wtemp, wvariant, wpre, wdata, wrestore,
                   wcalls>>
    /\ UNCHANGED <<cvars, stagevars>>

\* await fs.writeFile(backupPath, currentData): the file is opened and
\* truncated, then filled
SafeWriteBackupOpen ==
    /\ wpc = "backup"
    /\ \/ /\ wbackup' = Partial
          /\ wpc' = "backupMid"
          /\ UNCHANGED <<wfailAt, wthrown, wout>>
       \/ /\ SafeWriteFail("backup")
          /\ UNCHANGED wbackup
    /\ UNCHANGED <<wpath, wtemp, wvariant, wpre, wdata, wcur, wrestore, wcalls>>
    /\ UNCHANGED <<cvars, stagevars>>

SafeWriteBackupFinish ==
    /\ wpc = "backupMid"
    /\ \/ /\ wbackup' = wcur
          /\ wpc' = IF wvariant = "atomic" THEN "temp" ELSE "write"
          /\ UNCHANGED <<wfailAt, wthrown, wout>>
       \/ /\ SafeWriteFail("backup")
          /\ UNCHANGED wbackup
    /\ UNCHANGED <<wpath, wtemp, wvariant, wpre, wdata, wcur, wrestore, wcalls>>
    /\ UNCHANGED <<cvars, stagevars>>

\* atomic variant: await fs.writeFile(tempPath, JSON.stringify(data))
SafeWriteTempOpen ==
    /\ wpc = "temp"
    /\ \/ /\ wtemp' = Partial
          /\ wpc' = "tempMid"
          /\ UNCHANGED <<wfailAt, wthrown, wout>>
       \/ /\ SafeWriteFail("temp")
          /\ UNCHANGED wtemp
    /\ UNCHANGED <<wpath, wbackup, wvariant, wpre, wdata, wcur, wrestore,
                   wcalls>>
    /\ UNCHANGED <<cvars, stagevars>>

SafeWriteTempFinish ==
    /\ wpc = "tempMid"
    /\ \/ /\ wtemp' = wdata
          /\ wpc' = "rename"
          /\ UNCHANGED <<wfailAt, wthrown, wout>>
       \/ /\ SafeWriteFail("temp")
          /\ UNCHANGED wtemp
    /\ UNCHANGED <<wpath, wbackup, wvariant, wpre, wdata, wcur, wrestore,
                   wcalls>>
    /\ UNCHANGED <<cvars, stagevars>>

\* atomic variant: await fs.rename(tempPath, filePath)
SafeWriteRename ==
    /\ wpc = "rename"
    /\ \/ /\ wpath' = wtemp
          /\ wtemp' = Absent
          /\ wpc' = "unlinkBackup"
          /\ UNCHANGED <<wfailAt, wthrown, wout>>
       \/ /\ SafeWriteFail("rename")
          /\ UNCHANGED <<wpath, wtemp>>
    /\ UNCHANGED <<wbackup, wvariant, wpre, wdata, wcur, wrestore, wcalls>>
    /\ UNCHANGED <<cvars, stagevars>>

\* direct variant: await fs.writeFile(filePath, JSON.stringify(data))
SafeWriteDirectOpen ==
    /\ wpc = "write"
    /\ \/ /\ wpath' = Partial
          /\ wpc' = "writeMid"
          /\ UNCHANGED <<wfailAt, wthrown, wout>>
       \/ /\ SafeWriteFail("write")
          /\ UNCHANGED wpath
    /\ UNCHANGED <<wbackup, wtemp, wvariant, wpre, wdata, wcur, wrestore,
                   wcalls>>
    /\ UNCHANGED <<cvars, stagevars>>

SafeWriteDirectFinish ==
    /\ wpc = "writeMid"
    /\ \/ /\ wpath' = wdata
          /\ wpc' = "unlinkBackup"
          /\ UNCHANGED <<wfailAt, wthrown, wout>>
       \/ /\ SafeWriteFail("write")
          /\ UNCHANGED wpath
    /\ UNCHANGED <<wbackup, wtemp, wvariant, wpre, wdata, wcur, wrestore,
                   wcalls>>
    /\ UNCHANGED <<cvars, stagevars>>

\* await fs.unlink(backupPath); its errors are only logged
SafeWriteUnlinkBackup ==
    /\ wpc = "unlinkBackup"
    /\ wbackup' \in {Absent, wbackup}
    /\ IF wvariant = "atomic"
       THEN /\ wpc' = "finally"
            /\ UNCHANGED wout
       ELSE /\ wpc' = "idle"
            /\ wout' = "ok"
    /\ UNCHANGED <<wpath, wtemp, wvariant, wpre, wdata, wcur, wfailAt,
                   wrestore, wthrown, wcalls>>
    /\ UNCHANGED <<cvars, stagevars>>

\* atomic variant, catch: if (await fs.access(backupPath)...) copyFile
SafeWriteCatch ==
    /\ wpc = "catch"
    /\ IF wbackup # Absent
       THEN /\ wpc' = "restore"
            /\ UNCHANGED wthrown
       ELSE /\ wpc' = "finally"
            /\ wthrown' = "orig"
    /\ UNCHANGED <<wpath, wbackup, wtemp, wvariant, wpre, wdata, wcur,
                   wfailAt, wrestore, wout, wcalls>>
    /\ UNCHANGED <<cvars, stagevars>>

\* await fs.copyFile(backupPath, filePath): the destination is opened for
\* writing, then filled; a failure throws restoreError
SafeWriteRestoreOpen ==
    /\ wpc = "restore"
    /\ \/ /\ wpath' = Partial
          /\ wpc' = "restoreMid"
          /\ UNCHANGED <<wrestore, wthrown>>
       \/ /\ wrestore' = "failed"
          /\ wthrown' = "restore"
          /\ wpc' = "finally"
          /\ UNCHANGED wpath
    /\ UNCHANGED <<wbackup, wtemp, wvariant, wpre, wdata, wcur, wfailAt,
                   wout, wcalls>>
    /\ UNCHANGED <<cvars, stagevars>>

\* a copy that fails after the destination was opened leaves it incomplete,
\* or removed by Node's cleanup of the destination
SafeWriteRestoreFinish ==
    /\ wpc = "restoreMid"
    /\ \/ /\ wpath' = RestoreSource(wbackup, wtemp)
          /\ wrestore' = "ok"
          /\ wthrown' = "orig"
       \/ /\ wpath' \in {Partial, Absent}
          /\ wrestore' = "failed"
          /\ wthrown' = "restore"
    /\ wpc' = "finally"
    /\ UNCHANGED <<wbackup, wtemp, wvariant, wpre, wdata, wcur, wfailAt,
                   wout, wcalls>>
    /\ UNCHANGED <<cvars, stagevars>>

\* atomic variant, finally: await fs.unlink(tempPath); errors only logged
SafeWriteFinally ==
    /\ wpc = "finally"
    /\ wtemp' \in {Absent, wtemp}
    /\ wout' = IF wthrown = "none" THEN "ok" ELSE "threw"
    /\ wpc' = "idle"
    /\ UNCHANGED <<wpath, wbackup, wvariant, wpre, wdata, wcur, wfailAt,
                   wrestore, wthrown, wcalls>>
    /\ UNCHANGED <<cvars, stagevars>>

\* the process dies inside the call; the files stay as they are
SafeWriteCrash ==
    /\ wpc # "idle"
    /\ wpc' = "idle"
    /\ wout' = "crashed"
    /\ UNCHANGED <<wpath, wbackup, wtemp, wvariant, wpre, wdata, wcur,
                   wfailAt, wrestore, wthrown, wcalls>>
    /\ UNCHANGED <<cvars, stagevars>>

\* ------------------------------------------------------ submission cleaner
Url1 == "https://www.amazon.com/dp/B000000001"
Url2 == "https://www.amazon.com/Some-Title/dp/B000000002/ref=sr_1_1"
UrlShort == "https://www.amazon.com/dp/B00001"
Urls == {Url1, Url2, UrlShort}

NoAsin == "null"

\* cleaner.js:69-72  url.match(/\/dp\/([A-Z0-9]{10})/), evaluated on Urls
extractASIN(url) ==
    CASE url = Url1 -> "B000000001"
      [] url = Url2 -> "B000000002"
      [] OTHER -> NoAsin

Asins == {extractASIN(u) : u \in Urls} \ {NoAsin}

CleanerVariants == {"scripts/cleaner.js", "part_001"}

Submission(u) == [url |-> u, fa |-> <<>>]

\* (submission.failed_attempts || 0)
FailedAttempts(sub) == IF sub.fa = <<>> THEN 0 ELSE sub.fa[1]

\* part_001:180  if (submission.failed_attempts >= 3)
RemovalThreshold == 3

\* the filter callback of cleanup(): cleaner.js:127-148 removes a submission
\* whose key is not in metadata.books at once; part_001:159-190 counts
\* failed_attempts and removes at the threshold
CleanOne(sub, books, variant) ==
    LET asin == extractASIN(sub.url)
        n == FailedAttempts(sub) + 1
    IN  IF asin = NoAsin
        THEN [keep |-> FALSE, sub |-> sub, reason |-> "invalid_asin"]
        ELSE IF variant = "scripts/cleaner.js"
        THEN IF asin \in books
             THEN [keep |-> TRUE, sub |-> sub, reason |-> ""]
             ELSE [keep |-> FALSE, sub |-> sub, reason |-> "failed_or_purged"]
        ELSE IF asin \in books
             THEN [keep |-> TRUE, sub |-> [sub EXCEPT !.fa = <<0>>],
                   reason |-> ""]
             ELSE IF n >= RemovalThreshold
             THEN [keep |-> FALSE, sub |-> [sub EXCEPT !.fa = <<n>>],
                   reason |-> "failed_or_purged"]
             ELSE [keep |-> TRUE, sub |-> [sub EXCEPT !.fa = <<n>>],
                   reason |-> ""]

Indices(q) == [k \in 1 .. Len(q) |-> k]

\* inputData.submissions.filter(...): the kept submissions, in queue order
KeptSubmissions(rs) ==
    LET idx == SelectSeq(Indices(rs), LAMBDA k : rs[k].keep)
    IN  [j \in 1 .. Len(idx) |-> rs[idx[j]].sub]

\* removedSubmissions, in queue order
RemovedSubmissions(rs) ==
    LET idx == SelectSeq(Indices(rs), LAMBDA k : ~rs[k].keep)
    IN  [j \in 1 .. Len(idx) |-> rs[idx[j]]]

\* logCleanup(removedSubmissions, 'failed_or_purged'): cleaner.js:91-98
\* stamps every entry with the reason passed by the caller
LogEntries(removed, reason) ==
    [j \in 1 .. Len(removed) |-> [url |-> removed[j].sub.url, reason |-> reason]]

QueueUrls == {clInput[k].url : k \in 1 .. Len(clInput)}

DistinctSeqs(S, n) ==
    {q \in UNION {[1 .. m -> S] : m \in 1 .. n} :
        \A a, b \in 1 .. Len(q) : a # b => q[a] # q[b]}

CleanerIdle ==
    /\ clVariant = "scripts/cleaner.js"
    /\ clInput = <<>>
    /\ clBooks = {}
    /\ clLog = <<>>
    /\ clResult = TRUE
    /\ clRunCount = 0
    /\ clAbsentRuns = [u \in Urls |-> 0]
    /\ clEverPresent = [u \in Urls |-> FALSE]
    /\ clLastSeen = [u \in Urls |-> "none"]

CleanerInit ==
    /\ clVariant \in CleanerVariants
    /\ \E q \in DistinctSeqs(Urls, MaxQueue) :
            clInput = [k \in 1 .. Len(q) |-> Submission(q[k])]
    /\ clBooks \in SUBSET Asins
    /\ clLog = <<>>
    /\ clResult = TRUE
    /\ clRunCount = 0
    /\ clAbsentRuns = [u \in Urls |-> 0]
    /\ clEverPresent = [u \in Urls |-> FALSE]
    /\ clLastSeen = [u \in Urls |-> "none"]

\* cleanup(): read input.json and metadata.json, filter, logCleanup (best
\* effort), safeWriteJSON(input.json); a failed write returns success:false
Cleanup ==
    /\ clRunCount < MaxRuns
    /\ clRunCount' = clRunCount + 1
    /\ LET rs == [k \in 1 .. Len(clInput) |->
                    CleanOne(clInput[k], clBooks, clVariant)]
           removed == RemovedSubmissions(rs)
       IN /\ \E logOk \in BOOLEAN :
                clLog' = IF removed # <<>> /\ logOk
                         THEN clLog \o LogEntries(removed, "failed_or_purged")
                         ELSE clLog
          /\ \E writeOk \in BOOLEAN :
                /\ clResult' = writeOk
                /\ IF writeOk
                   THEN /\ clInput' = KeptSubmissions(rs)
                        /\ clAbsentRuns' =
                             [u \in Urls |->
                                IF /\ u \in QueueUrls
                                   /\ extractASIN(u) # NoAsin
                                   /\ extractASIN(u) \notin clBooks
                                THEN clAbsentRuns[u] + 1
                                ELSE clAbsentRuns[u]]
                        /\ clEverPresent' =
                             [u \in Urls |->
                                \/ clEverPresent[u]
                                \/ u \in QueueUrls /\ extractASIN(u) \in clBooks]
                        /\ clLastSeen' =
                             [u \in Urls |->
                                IF u \notin QueueUrls THEN clLastSeen[u]
                                ELSE IF extractASIN(u) \in clBooks
                                THEN "present" ELSE "absent"]
                   ELSE UNCHANGED <<clInput, clAbsentRuns, clEverPresent,
                                    clLastSeen>>
    /\ UNCHANGED <<clVariant, clBooks>>
    /\ UNCHANGED clFrame

\* a successful acquisition stores the item under its key
ItemStored(k) ==
    /\ k \notin clBooks
    /\ clBooks' = clBooks \cup {k}
    /\ UNCHANGED <<clVariant, clInput, clLog, clResult, clRunCount,
                   clAbsentRuns, clEverPresent, clLastSeen>>
    /\ UNCHANGED clFrame

\* the purger deletes a blacklisted item
ItemPurged(k) ==
    /\ k \in clBooks
    /\ clBooks' = clBooks \ {k}
    /\ UNCHANGED <<clVariant, clInput, clLog, clResult, clRunCount,
                   clAbsentRuns, clEverPresent, clLastSeen>>
    /\ UNCHANGED clFrame

\* --------------------------------------------------------------- JS values
\* a field of a stored item or of the blacklist: a string, written character
\* by character, a number, or undefined
Str(cs) == [type |-> "string", chars |-> cs]
Num == [type |-> "number", chars |-> <<>>]
Undefined == [type |-> "undefined", chars |-> <<>>]

\* !v is false: a non-empty string or a (non-zero) number
Truthy(v) == v.type = "number" \/ (v.type = "string" /\ v.chars # <<>>)

Upper == <<"A", "B", "C", "D", "E", "F", "G", "H", "I", "J", "K", "L", "M", "N", "O", "P", "Q", "R", "S", "T", "U", "V", "W", "X", "Y", "Z">>
Lower == <<"a", "b", "c", "d", "e", "f", "g", "h", "i", "j", "k", "l", "m", "n", "o", "p", "q", "r", "s", "t", "u", "v", "w", "x", "y", "z">>

Whitespace == {" "}

\* String.prototype.toLowerCase
toLowerCase(cs) ==
    [k \in 1 .. Len(cs) |->
        IF \E u \in 1 .. Len(Upper) : Upper[u] = cs[k]
        THEN Lower[CHOOSE u \in 1 .. Len(Upper) : Upper[u] = cs[k]]
        ELSE cs[k]]

\* String.prototype.trim
Trim(cs) ==
    LET keep == {k \in 1 .. Len(cs) : cs[k] \notin Whitespace}
    IN  IF keep = {} THEN <<>>
        ELSE SubSeq(cs, CHOOSE a \in keep : \A b \in keep : a <= b,
                        CHOOSE a \in keep : \A b \in keep : a >= b)

\* String.prototype.includes
Includes(hay, needle) ==
    \E i \in 0 .. Len(hay) - Len(needle) :
        SubSeq(hay, i + 1, i + Len(needle)) = needle

\* ---------------------------------------------------------------- publisher
Digits == <<"0", "1", "2", "3", "4", "5", "6", "7", "8", "9">>

IsDigit(c) == \E d \in 1 .. Len(Digits) : Digits[d] = c

DigitValue(c) == (CHOOSE d \in 1 .. Len(Digits) : Digits[d] = c) - 1

\* rank values as metadata.json may hold them, written character by
\* character: "1,234", "57", "-5", "N/A"
BsrComma == <<"1", ",", "2", "3", "4">>
BsrPlain == <<"5", "7">>
BsrNegative == <<"-", "5">>
BsrText == <<"N", "/", "A">>
BsrValues == {BsrComma, BsrPlain, BsrNegative, BsrText}

\* the number 1234 as String() shows it
Bsr1234 == <<"1", "2", "3", "4">>

\* String(bsr).replace(/,/g, '')
StripCommas(s) == SelectSeq(s, LAMBDA c : c # ",")

\* the longest run of digits at the start of s
LeadingDigits(s) ==
    LET n == CHOOSE k \in 0 .. Len(s) :
                 /\ \A j \in 1 .. k : IsDigit(s[j])
                 /\ k = Len(s) \/ ~IsDigit(s[k + 1])
    IN  SubSeq(s, 1, n)

RECURSIVE NumberOf(_)
NumberOf(ds) ==
    IF ds = <<>> THEN 0
    ELSE Len(Digits) * NumberOf(SubSeq(ds, 1, Len(ds) - 1))
            + DigitValue(ds[Len(ds)])

\* parseInt(s, 10): an optional sign, then the leading digits; <<>> stands
\* for NaN and <<n>> for the number n
parseInt(s) ==
    LET signed == s # <<>> /\ s[1] \in {"-", "+"}
        body == IF signed THEN Tail(s) ELSE s
        ds == LeadingDigits(body)
    IN  IF ds = <<>> THEN <<>>
        ELSE IF signed /\ s[1] = "-" THEN <<0 - NumberOf(ds)>>
        ELSE <<NumberOf(ds)>>

isNaN(r) == r = <<>>

CoverUrl == "https://m.media-amazon.com/images/I/cover.jpg"

\* typeof v === 'string' && v.trim().length > 0
NonBlankString(v) == v.type = "string" /\ Trim(v.chars) # <<>>

\* cover_url.startsWith('http') and url.includes('amazon.com'), on the
\* strings of the model
StartsWithHttp(s) == s \in Urls \cup {CoverUrl}
IncludesAmazon(s) == s \in Urls \cup {CoverUrl}

Titles == {Str(<<"T">>), Str(<<" ">>)}

\* an entry of metadata.books
Book(t, a, b) ==
    [title |-> t, author |-> a, cover_url |-> CoverUrl, bsr |-> b,
     url |-> Url1]

StoredBook(t, b) == Book(t, Str(<<"A">>), b)

\* every title with every rank value, and one item whose title is empty
StoredBooks ==
    {StoredBook(t, b) : t \in Titles, b \in BsrValues}
        \cup {StoredBook(Str(<<>>), BsrPlain)}

\* the keys of metadata.books: two extracted keys and one too short
ShortKey == "B00001"
BookKeys == Asins \cup {ShortKey}

\* Object.entries(metadata.books): [asin, book] in the order of the document
ItemDatabases ==
    {<<>>} \cup
    {db \in UNION {[1 .. m -> [asin : BookKeys, book : StoredBooks]] :
                        m \in 1 .. MaxBooks} :
        \A a, b \in 1 .. Len(db) : a # b => db[a].asin # db[b].asin}

\* the comparator without .replace(/,/g, ''): parseInt stops at the comma
CompareBsrKeepCommas(a, b) ==
    LET bsrA == parseInt(a.book.bsr)
        bsrB == parseInt(b.book.bsr)
    IN  IF isNaN(bsrA) /\ isNaN(bsrB) THEN 0
        ELSE IF isNaN(bsrA) THEN 1
        ELSE IF isNaN(bsrB) THEN 0 - 1
        ELSE bsrA[1] - bsrB[1]

\* publisher.js:69-80  the comparator of the sort, in sign
CompareBsr(a, b) ==
    LET bsrA == parseInt(StripCommas(a.book.bsr))
        bsrB == parseInt(StripCommas(b.book.bsr))
    IN  IF isNaN(bsrA) /\ isNaN(bsrB) THEN 0
        ELSE IF isNaN(bsrA) THEN 1
        ELSE IF isNaN(bsrB) THEN 0 - 1
        ELSE bsrA[1] - bsrB[1]

\* Array.prototype.sort is stable: entries that compare equal keep the
\* order of the document
SortedOrder(entries) ==
    LET n == Len(entries)
    IN  CHOOSE p \in [1 .. n -> 1 .. n] :
            /\ \A i, j \in 1 .. n : i # j => p[i] # p[j]
            /\ \A i, j \in 1 .. n :
                  i < j =>
                    LET c == CompareBsr(entries[p[i]], entries[p[j]])
                    IN  c < 0 \/ (c = 0 /\ p[i] < p[j])

\* publisher.js:62-100
transformToOutput(metadata) ==
    LET entries == metadata.books
        p == SortedOrder(entries)
    IN  [version |-> "1.0",
         books |-> [i \in 1 .. Len(entries) |->
                      [asin |-> entries[p[i]].asin,
                       rank |-> i,
                       title |-> entries[p[i]].book.title,
                       author |-> entries[p[i]].book.author,
                       cover_url |-> entries[p[i]].book.cover_url,
                       bsr |-> entries[p[i]].book.bsr,
                       url |-> entries[p[i]].book.url]]]

\* publisher.js:103-135
isValidBook(book) ==
    /\ NonBlankString(book.title)
    /\ NonBlankString(book.author)
    /\ StartsWithHttp(book.cover_url)
    /\ IncludesAmazon(book.url)
    /\ ~isNaN(parseInt(StripCommas(book.bsr)))

\* publisher.js:161  asin.length < 10
AsinLength == 10

\* publisher.js:160-183  the entries that pass every per-book check
ValidBooks(output) ==
    SelectSeq(output.books,
              LAMBDA b : /\ Len(b.asin) >= AsinLength
                         /\ isValidBook(b)
                         /\ b.rank >= 1)

Ranks(books) == {books[k].rank : k \in 1 .. Len(books)}

Returned(out) == [threw |-> FALSE, error |-> "", output |-> out]
Threw(msg) ==
    [threw |-> TRUE, error |-> msg, output |-> [version |-> "", books |-> <<>>]]

\* publisher.js:137-214
validateOutputNoSequence(output) ==
    LET validBooks == ValidBooks(output)
    IN  IF Len(validBooks) = 0
        THEN Threw("No valid books found in output")
        ELSE Returned([version |-> output.version, books |-> validBooks])

validateOutput(output) ==
    LET validBooks == ValidBooks(output)
        ranks == Ranks(validBooks)
        numBooks == Len(validBooks)
    IN  IF numBooks > 0 /\ \E i \in 1 .. numBooks : i \notin ranks
        THEN Threw("Invalid rank sequence: missing rank")
        ELSE IF numBooks > 0 /\ Cardinality(ranks) # numBooks
        THEN Threw("Invalid rank sequence: duplicate or out-of-range ranks found")
        ELSE IF Len(validBooks) = 0
        THEN Threw("No valid books found in output")
        ELSE Returned([version |-> output.version, books |-> validBooks])

PublishPending == [success |-> FALSE, error |-> "pending"]
PublishFailure(msg) == [success |-> FALSE, error |-> msg]
PublishSuccess == [success |-> TRUE, error |-> ""]

NoOutput == [version |-> "", books |-> <<>>]

PublisherIdle ==
    /\ pbMetadata = [readable |-> TRUE, books |-> <<>>]
    /\ pbPc = "idle"
    /\ pbResult = PublishPending
    /\ pbOutput = NoOutput
    /\ pbPublished = <<>>

PublisherInit ==
    /\ \/ pbMetadata = [readable |-> FALSE, books |-> <<>>]
       \/ \E db \in ItemDatabases :
              pbMetadata = [readable |-> TRUE, books |-> db]
    /\ pbPc = "idle"
    /\ pbResult = PublishPending
    /\ pbOutput = NoOutput
    /\ pbPublished = <<>>

\* publish() up to its call of safeWriteJSON(booksPath, output):
\* publisher.js:217-251
PublishStart ==
    /\ pbPc \in {"idle", "done"}
    /\ wpc = "idle"
    /\ wcalls < MaxCalls
    /\ IF ~pbMetadata.readable
       THEN /\ pbResult' = PublishFailure("Failed to load metadata")
            /\ pbPc' = "done"
            /\ UNCHANGED <<pbOutput, pbPublished, wvars>>
       ELSE LET v == validateOutput(transformToOutput(pbMetadata))
            IN  IF v.threw
                THEN /\ pbResult' = PublishFailure(v.error)
                     /\ pbPc' = "done"
                     /\ UNCHANGED <<pbOutput, pbPublished, wvars>>
                ELSE /\ pbResult' = PublishPending
                     /\ pbPc' = "writing"
                     /\ pbOutput' = v.output
                     /\ pbPublished' = Append(pbPublished, v.output)
                     /\ wvariant' = "atomic"
                     /\ wcalls' = wcalls + 1
                     /\ wpre' = wpath
                     /\ wdata' = Doc(wcalls + 1)
                     /\ wcur' = Absent
                     /\ wfailAt' = "none"
                     /\ wrestore' = "none"
                     /\ wthrown' = "none"
                     /\ wout' = "none"
                     /\ wpc' = "read"
                     /\ UNCHANGED <<wpath, wbackup, wtemp>>
    /\ UNCHANGED pbMetadata
    /\ UNCHANGED pbFrame

\* publish() after safeWriteJSON has settled: publisher.js:252-264
PublishReturn ==
    /\ pbPc = "writing"
    /\ wpc = "idle"
    /\ wout \in {"ok", "threw"}
    /\ pbResult' = IF wout = "ok" THEN PublishSuccess
                    ELSE PublishFailure("Failed to write output file")
    /\ pbPc' = "done"
    /\ UNCHANGED <<pbMetadata, pbOutput, pbPublished, wvars>>
    /\ UNCHANGED pbFrame

\* what books.json holds, when it holds a complete document written by
\* publish()
BooksJson ==
    IF wpath.kind = "doc" /\ wpath.ver > 0 THEN pbPublished[wpath.ver]
    ELSE NoOutput

\* ------------------------------------------------------------------ purger
\* purger.js:183  the characters removed by normalizeString (the backquote
\* of the source's class is left out: no string of the model holds one)
Punctuation ==
    {".", ",", "/", "#", "!", "$", "%", "^", "&", "*", ";", ":", "{", "}",
     "=", "-", "_", "~", "(", ")"}

\* replace(/\s+/g, " ")
CollapseSpaces(cs) ==
    LET keep == SelectSeq(Indices(cs),
                          LAMBDA k : \/ cs[k] \notin Whitespace
                                     \/ k = 1
                                     \/ cs[k - 1] \notin Whitespace)
    IN  [j \in 1 .. Len(keep) |->
            IF cs[keep[j]] \in Whitespace THEN " " ELSE cs[keep[j]]]

\* purger.js:180-186, for a string or a falsy value
normalizeString(v) ==
    IF ~Truthy(v) THEN <<>>
    ELSE Trim(CollapseSpaces(
              SelectSeq(toLowerCase(v.chars), LAMBDA c : c \notin Punctuation)))

\* str.toLowerCase is not a function: v is truthy and not a string
NormalizeThrows(v) == Truthy(v) /\ v.type # "string"

\* parts[parts.length - 1] of s.split(' ')
LastToken(cs) ==
    LET sp == {k \in 1 .. Len(cs) : cs[k] = " "}
    IN  IF sp = {} THEN cs
        ELSE SubSeq(cs, (CHOOSE a \in sp : \A b \in sp : a >= b) + 1, Len(cs))

\* purger.js:238  bookLastName.length > 3
LastNameLength == 3

isAuthorMatchNoLastName(bookAuthor, blacklistAuthor) ==
    IF ~Truthy(bookAuthor) \/ ~Truthy(blacklistAuthor) THEN FALSE
    ELSE LET a == normalizeString(bookAuthor)
             b == normalizeString(blacklistAuthor)
         IN  a = b \/ Includes(a, b) \/ Includes(b, a)
\* purger.js:204-245
isAuthorMatch(bookAuthor, blacklistAuthor) ==
    IF ~Truthy(bookAuthor) \/ ~Truthy(blacklistAuthor) THEN FALSE
    ELSE LET a == normalizeString(bookAuthor)
             b == normalizeString(blacklistAuthor)
         IN  \/ a = b
             \/ Includes(a, b)
             \/ Includes(b, a)
             \/ /\ LastToken(a) = LastToken(b)
                /\ Len(LastToken(a)) > LastNameLength

\* part_003:85-90
isAuthorMatchExact(bookAuthor, blacklistAuthor) ==
    IF ~Truthy(bookAuthor) \/ ~Truthy(blacklistAuthor) THEN FALSE
    ELSE normalizeString(bookAuthor) = normalizeString(blacklistAuthor)

AuthorMatchThrows(bookAuthor, blacklistAuthor) ==
    /\ Truthy(bookAuthor)
    /\ Truthy(blacklistAuthor)
    /\ NormalizeThrows(bookAuthor) \/ NormalizeThrows(blacklistAuthor)

\* \w of the regular expression
IsWordChar(c) ==
    \/ \E k \in 1 .. Len(Upper) : c = Upper[k] \/ c = Lower[k]
    \/ IsDigit(c)
    \/ c = "_"

\* \b between position k and k + 1 of cs
WordBoundary(cs, k) ==
    (k >= 1 /\ IsWordChar(cs[k])) # (k < Len(cs) /\ IsWordChar(cs[k + 1]))

\* purger.js:278-279  new RegExp(`\\b${escapeRegExp(p)}\\b`, 'i').test(t)
WholeWordMatch(t, p) ==
    \E i \in 0 .. Len(t) - Len(p) :
        /\ SubSeq(t, i + 1, i + Len(p)) = p
        /\ WordBoundary(t, i)
        /\ WordBoundary(t, i + Len(p))

\* the outcome of one predicate evaluation inside isBlacklisted
NoMatch == [out |-> "none", reason |-> "", pattern |-> Undefined]
Match(reason, pattern) == [out |-> "match", reason |-> reason, pattern |-> pattern]
ErrorMessage == Str(<<"e", "r", "r", "o", "r">>)
ThrowCheck == [out |-> "throw", reason |-> "error_during_check",
               pattern |-> ErrorMessage]

AuthorCheck(book, author, reason, variant) ==
    IF AuthorMatchThrows(book.author, author) THEN ThrowCheck
    ELSE IF variant = "scripts/purger.js"
    THEN IF isAuthorMatch(book.author, author)
         THEN Match(reason, author) ELSE NoMatch
    ELSE IF isAuthorMatchExact(book.author, author)
         THEN Match(reason, author) ELSE NoMatch

\* purger.js:260-288  one pattern of isTitleBlacklisted against the
\* normalized title
PatternCheck(normalizedTitle, pattern, reason) ==
    IF NormalizeThrows(pattern) THEN ThrowCheck
    ELSE LET p == normalizeString(pattern)
         IN  IF p = <<>> THEN NoMatch
             ELSE IF Includes(normalizedTitle, p) \/ WholeWordMatch(normalizedTitle, p)
             THEN Match(reason, pattern)
             ELSE NoMatch

\* part_003:112-115  normalizedTitle.includes(pattern.toLowerCase()); find()
\* returns the pattern, and an empty pattern is falsy
PatternCheckLower(lowerTitle, pattern, reason) ==
    IF pattern.type # "string" THEN ThrowCheck
    ELSE IF pattern.chars # <<>> /\ Includes(lowerTitle, toLowerCase(pattern.chars))
    THEN Match(reason, pattern)
    ELSE NoMatch

\* purger.js:253-294 isTitleBlacklisted(bookTitle, titlePatterns), as the
\* sequence of its evaluations; part_003:110-119 for the other variant
TitleChecks(title, patterns, reason, variant) ==
    IF ~Truthy(title) THEN <<>>
    ELSE IF title.type # "string" THEN <<ThrowCheck>>
    ELSE IF variant = "scripts/purger.js"
    THEN [k \in 1 .. Len(patterns) |->
            PatternCheck(normalizeString(title), patterns[k], reason)]
    ELSE [k \in 1 .. Len(patterns) |->
            PatternCheckLower(toLowerCase(title.chars), patterns[k], reason)]

TitlePrefix == <<"t", "i", "t", "l", "e", ":">>

StartsWith(cs, prefix) ==
    Len(cs) >= Len(prefix) /\ SubSeq(cs, 1, Len(prefix)) = prefix

\* purger.js:444-467 and part_003:124-141: one entry of blacklist.patterns;
\* part_003 tests title.toLowerCase().includes(titlePattern) itself
LegacyChecks(book, pattern, variant) ==
    IF pattern.type # "string" THEN <<ThrowCheck>>
    ELSE IF StartsWith(pattern.chars, TitlePrefix) /\ Truthy(book.title)
    THEN LET titlePattern == Trim(SubSeq(pattern.chars, Len(TitlePrefix) + 1,
                                         Len(pattern.chars)))
         IN  IF variant = "scripts/purger.js"
             THEN TitleChecks(book.title, <<Str(titlePattern)>>,
                              "legacy_title_pattern", variant)
             ELSE IF book.title.type # "string" THEN <<ThrowCheck>>
             ELSE IF Includes(toLowerCase(book.title.chars),
                              toLowerCase(titlePattern))
             THEN <<Match("legacy_title_pattern", Str(titlePattern))>>
             ELSE <<NoMatch>>
    ELSE <<AuthorCheck(book, pattern, "legacy_author_pattern", variant)>>

RECURSIVE Flatten(_)
Flatten(ss) == IF ss = <<>> THEN <<>> ELSE Head(ss) \o Flatten(Tail(ss))

ChecksTitleFirst(book, blacklist, variant) ==
    TitleChecks(book.title, blacklist.title_patterns,
                "blacklisted_title_pattern", variant)
    \o [k \in 1 .. Len(blacklist.authors) |->
          AuthorCheck(book, blacklist.authors[k], "blacklisted_author", variant)]
    \o Flatten([k \in 1 .. Len(blacklist.patterns) |->
                  LegacyChecks(book, blacklist.patterns[k], variant)])
\* the evaluations of isBlacklisted in the order the code makes them
Checks(book, blacklist, variant) ==
    [k \in 1 .. Len(blacklist.authors) |->
        AuthorCheck(book, blacklist.authors[k], "blacklisted_author", variant)]
    \o TitleChecks(book.title, blacklist.title_patterns,
                   "blacklisted_title_pattern", variant)
    \o Flatten([k \in 1 .. Len(blacklist.patterns) |->
                  LegacyChecks(book, blacklist.patterns[k], variant)])

\* the first evaluation that matches or throws decides
Decide(book, blacklist, variant) ==
    LET cs == Checks(book, blacklist, variant)
        hits == {k \in 1 .. Len(cs) : cs[k].out # "none"}
    IN  IF hits = {} THEN NoMatch
        ELSE cs[CHOOSE a \in hits : \A b \in hits : a <= b]

\* purger.js:412-479: a throwing evaluation is caught and the item is
\* reported blacklisted with reason error_during_check; part_003:99-151
\* returns a bare true or false, so its outcomes carry no reason
isBlacklistedNoCatch(book, blacklist, variant) ==
    LET d == Decide(book, blacklist, variant)
    IN  [isBlacklisted |-> d.out = "match",
         reason |-> IF d.out = "match" THEN d.reason ELSE "",
         matchedPattern |-> IF d.out = "match" THEN d.pattern ELSE Undefined,
         threw |-> d.out = "throw"]
isBlacklisted(book, blacklist, variant) ==
    LET d == Decide(book, blacklist, variant)
    IN  [isBlacklisted |-> d.out # "none",
         reason |-> IF variant = "scripts/purger.js" THEN d.reason ELSE "",
         matchedPattern |-> IF variant = "scripts/purger.js" THEN d.pattern
                            ELSE Undefined,
         threw |-> FALSE]

PurgerVariants == {"scripts/purger.js", "part_003"}

\* purger.js:537-545, 564-565, 576-577: the names and patterns the code puts
\* in place of an empty or unreadable list (the source's list of title
\* patterns has one more entry, a slur that no title of the model contains)
CriticalAuthors ==
    <<Str(<<"A", "d", "o", "l", "f", " ", "H", "i", "t", "l", "e", "r">>),
      Str(<<"W", "i", "l", "l", "i", "a", "m", " ", "S", "h", "a", "k", "e", "s", "p", "e", "a", "r", "e">>),
      Str(<<"R", "a", "n", "d", "a", "l", "l", " ", "K", "e", "n", "n", "e", "d", "y">>),
      Str(<<"R", "i", "c", "k", " ", "D", "o", "n", "a", "h", "u", "e">>),
      Str(<<"D", "i", "c", "k", " ", "G", "r", "e", "g", "o", "r", "y">>)>>
CriticalTitlePatterns ==
    <<Str(<<"m", "e", "i", "n", " ", "k", "a", "m", "p", "f">>),
      Str(<<"a", "d", "u", "l", "t">>),
      Str(<<"x", "x", "x">>),
      Str(<<"e", "r", "o", "t", "i", "c", "a">>)>>

Blacklist(a, t, p) == [authors |-> a, title_patterns |-> t, patterns |-> p]
EmergencyBlacklist == Blacklist(CriticalAuthors, CriticalTitlePatterns, <<>>)

\* blacklist.json: absent, not parseable, or a document with its three lists
MissingFile == [state |-> "missing", doc |-> Blacklist(<<>>, <<>>, <<>>)]
CorruptFile == [state |-> "corrupt", doc |-> Blacklist(<<>>, <<>>, <<>>)]
BlacklistFile(a, t, p) == [state |-> "doc", doc |-> Blacklist(a, t, p)]

\* purger.js:504-585 and part_003:162-186: what purge() uses as blacklist
LoadBlacklist(file, variant) ==
    IF variant = "scripts/purger.js"
    THEN IF file.state # "doc"
         THEN [threw |-> FALSE, blacklist |-> EmergencyBlacklist]
         ELSE [threw |-> FALSE,
               blacklist |->
                  Blacklist(IF file.doc.authors = <<>> THEN CriticalAuthors
                            ELSE file.doc.authors,
                            IF file.doc.title_patterns = <<>>
                            THEN CriticalTitlePatterns
                            ELSE file.doc.title_patterns,
                            file.doc.patterns)]
    ELSE IF file.state = "missing"
         THEN [threw |-> FALSE, blacklist |-> Blacklist(<<>>, <<>>, <<>>)]
         ELSE IF file.state = "corrupt"
         THEN [threw |-> TRUE, blacklist |-> Blacklist(<<>>, <<>>, <<>>)]
         ELSE [threw |-> FALSE, blacklist |-> file.doc]

AuthorA == Str(<<"A">>)
AuthorListed == Str(<<"W", "i", "l", "l", "i", "a", "m", " ", "S", "h", "a", "k", "e", "s", "p", "e", "a", "r", "e">>)
AuthorOther == Str(<<"B", "o", "b", " ", "R", "a", "y">>)
TitleT == Str(<<"T">>)
TitleAdult == Str(<<"A", "d", "u", "l", "t", " ", "A", "r", "t">>)
TitleParty == Str(<<"P", "a", "r", "t", "y">>)

\* the items the filter is run on: an author that is a number makes
\* normalizeString throw
PurgerBooks ==
    {Book(TitleT, AuthorA, Bsr1234),
     Book(TitleT, AuthorListed, BsrPlain),
     Book(TitleT, Num, BsrPlain),
     Book(TitleParty, AuthorOther, BsrPlain),
     Book(TitleAdult, AuthorOther, BsrPlain),
     Book(TitleParty, AuthorListed, BsrPlain)}

\* Object.entries(metadata.books) of DATA_DIR/metadata.json
PurgerDatabases ==
    {<<>>} \cup
    {db \in UNION {[1 .. m -> [asin : BookKeys, book : PurgerBooks]] :
                        m \in 1 .. MaxBooks} :
        \A a, b \in 1 .. Len(db) : a # b => db[a].asin # db[b].asin}

EmptyListsFile == BlacklistFile(<<>>, <<>>, <<>>)
CustomFile ==
    BlacklistFile(<<AuthorOther>>,
                  <<Str(<<"a", "r", "t">>)>>,
                  <<Str(<<"t", "i", "t", "l", "e", ":", " ", "a", "d", "u", "l", "t">>),
                    Str(<<"S", "h", "a", "k", "e", "s", "p", "e", "a", "r", "e">>)>>)
BlacklistFiles == {MissingFile, CorruptFile, EmptyListsFile, CustomFile}

\* isBlacklisted(book, blacklist) for every item, blacklist.json content and
\* variant of the model, with the blacklist as purge() loads it
Verdicts ==
    [v \in PurgerVariants |->
        [f \in BlacklistFiles |->
            [b \in PurgerBooks |->
                isBlacklisted(b, LoadBlacklist(f, v).blacklist, v)]]]

PurgeSuccess == [success |-> TRUE, error |-> ""]
PurgeFailure == [success |-> FALSE, error |-> "error"]

\* purger.js:364-373  the record pushed to rejected_books
BrownlistRecord(entry, r) ==
    [asin |-> entry.asin, rejection_reason |-> r.reason,
     matched_pattern |-> r.matchedPattern]

\* addToBrownlist (purger.js:318-404) ends in one of three ways: the record
\* is appended to the stored list; the stored file could not be used and a
\* list holding only this record replaces it; or nothing is written
BrownlistOutcomes == {"appended", "replaced", "failed"}

RECURSIVE AddAllToBrownlist(_, _, _)
AddAllToBrownlist(list, recs, outs) ==
    IF recs = <<>> THEN list
    ELSE AddAllToBrownlist(
            CASE Head(outs) = "appended" -> Append(list, Head(recs))
              [] Head(outs) = "replaced" -> <<Head(recs)>>
              [] OTHER -> list,
            Tail(recs), Tail(outs))

PurgerIdle ==
    /\ puVariant = "scripts/purger.js"
    /\ puBlacklist = MissingFile
    /\ puBooks = <<>>
    /\ puBrownlist = <<>>
    /\ puResult = PurgeSuccess
    /\ puRunCount = 0
    /\ puPre = <<>>
    /\ puOutcome = <<>>
    /\ puFault = "none"

\* a record stored in brownlist.json by an earlier purge run
EarlierRecord ==
    [asin |-> "B000000009", rejection_reason |-> "author_match",
     matched_pattern |-> "earlier"]

\* initializeBrownlist (purger.js:78-126): a file that exists, is read and
\* parses is left alone; when access succeeds and the read or the parse
\* fails for whatever reason, createNewBrownlist overwrites the file with an
\* empty list
InitializeOutcomes == {"kept", "recreated"}
initializeBrownlist(list, outcome) ==
    IF outcome = "recreated" THEN <<>> ELSE list

PurgerInit ==
    /\ puVariant \in PurgerVariants
    /\ puBlacklist \in BlacklistFiles
    /\ puBooks \in PurgerDatabases
    /\ puBrownlist \in {<<>>, <<EarlierRecord>>}
    /\ puResult = PurgeSuccess
    /\ puRunCount = 0
    /\ puPre = <<>>
    /\ puOutcome = <<>>
    /\ puFault = "none"

\* purge() once the blacklist is loaded and every item is checked
\* (purger.js:596-660, part_003:188-226): the removed items are recorded in
\* the brownlist and the kept ones are written back
PurgeOutcome(loaded, results, readOk, writeOk, stored) ==
    LET keptIdx == SelectSeq(Indices(puBooks),
                             LAMBDA k : ~results[k].isBlacklisted)
        purgedIdx == SelectSeq(Indices(puBooks),
                               LAMBDA k : results[k].isBlacklisted)
        recs == [j \in 1 .. Len(purgedIdx) |->
                   BrownlistRecord(puBooks[purgedIdx[j]],
                                   results[purgedIdx[j]])]
    IN  IF \/ ~readOk
           \/ loaded.threw
           \/ \E k \in 1 .. Len(results) : results[k].threw
        THEN /\ puResult' = PurgeFailure
             /\ puFault' = IF readOk THEN "none" ELSE "read"
             /\ puOutcome' = <<>>
             /\ puBrownlist' = stored
             /\ UNCHANGED puBooks
        ELSE /\ puOutcome' = results
             /\ IF puVariant = "scripts/purger.js"
                THEN \E outs \in [1 .. Len(recs) -> BrownlistOutcomes] :
                       puBrownlist' = AddAllToBrownlist(stored, recs, outs)
                ELSE puBrownlist' = stored
             /\ IF writeOk
                THEN /\ puBooks' = [j \in 1 .. Len(keptIdx) |->
                                      puBooks[keptIdx[j]]]
                     /\ puResult' = PurgeSuccess
                     /\ puFault' = "none"
                ELSE /\ UNCHANGED puBooks
                     /\ puResult' = PurgeFailure
                     /\ puFault' = "write"

\* purge(): purger.js:485-673 (part_003:153-234)
Purge ==
    /\ puRunCount < MaxCalls
    /\ puRunCount' = puRunCount + 1
    /\ puPre' = puBooks
    /\ \E readOk, writeOk \in BOOLEAN, init \in InitializeOutcomes :
         PurgeOutcome(LoadBlacklist(puBlacklist, puVariant),
                      [k \in 1 .. Len(puBooks) |->
                          Verdicts[puVariant][puBlacklist][puBooks[k].book]],
                      readOk, writeOk,
                      IF puVariant = "scripts/purger.js"
                      THEN initializeBrownlist(puBrownlist, init)
                      ELSE puBrownlist)
    /\ UNCHANGED <<puVariant, puBlacklist>>
    /\ UNCHANGED puFrame

\* ----------------------------------------------------------------- scraper
\* String(n) for a number n >= 0
RECURSIVE StringOf(_)
StringOf(n) ==
    IF n < Len(Digits) THEN <<Digits[n + 1]>>
    ELSE StringOf(n \div Len(Digits)) \o <<Digits[(n % Len(Digits)) + 1]>>

\* scraper.js:304-339 extractBSR on the digits and commas matched after '#':
\* the number, or <<>> for null
extractBSR(matched) ==
    LET bsr == parseInt(StripCommas(matched))
    IN  IF ~isNaN(bsr) /\ bsr[1] > 0 THEN bsr ELSE <<>>

\* the bsr field of result.data as JSON.stringify and String() show it
StoredBsr(matched) == StringOf(extractBSR(matched)[1])

\* the three acquisition loops of the repository: scraper.js:442-488,
\* scraper.js:1165-1191 and the scrape() embedded in publisher.js:640-804
ScraperVariants == {"scraper.js:442", "scraper.js:1165", "publisher.js:640"}

\* an entry of metadata.books with the fields the upsert adds to result.data:
\* first_seen is <<>> when the entry has none, history is <<>> when the entry
\* has none and <<h>> when it has the list h
Entry(asin, book, firstSeen, history) ==
    [asin |-> asin, book |-> book, first_seen |-> firstSeen,
     history |-> history]

HasKey(books, asin) == \E k \in 1 .. Len(books) : books[k].asin = asin

PositionOf(books, asin) == CHOOSE k \in 1 .. Len(books) : books[k].asin = asin

\* metadata.books[asin] = value: an existing key keeps its place, a new key
\* goes last
Assign(books, asin, value) ==
    IF HasKey(books, asin)
    THEN [books EXCEPT ![PositionOf(books, asin)] = value]
    ELSE Append(books, value)

\* scraper.js:459-463 and 1183-1186 replace the entry by result.data;
\* publisher.js:706-731 sets first_seen and an empty history for a new key
\* and appends {timestamp, bsr} to the history of an existing one
Upsert(books, asin, data, t, variant) ==
    IF variant # "publisher.js:640"
    THEN Assign(books, asin, Entry(asin, data, <<>>, <<>>))
    ELSE IF ~HasKey(books, asin)
    THEN Assign(books, asin, Entry(asin, data, <<t>>, <<<<>>>>))
    ELSE LET old == books[PositionOf(books, asin)]
         IN  Assign(books, asin,
                    Entry(asin, data, old.first_seen,
                          <<old.history[1]
                              \o <<[timestamp |-> t, bsr |-> data.bsr]>>>>))

ScrapedBsr == {StoredBsr(BsrComma), StoredBsr(BsrPlain)}

ScraperIdle ==
    /\ scVariant = "scraper.js:442"
    /\ scBooks = <<>>
    /\ scClock = 0
    /\ scFirst = [k \in Asins |-> <<>>]
    /\ scLater = [k \in Asins |-> <<>>]

ScraperInit ==
    /\ scVariant \in ScraperVariants
    /\ scBooks = <<>>
    /\ scClock = 0
    /\ scFirst = [k \in Asins |-> <<>>]
    /\ scLater = [k \in Asins |-> <<>>]

\* one submission of the loop whose scrapeBook() returned success
ScrapeSuccess(u, b) ==
    /\ scClock < MaxRuns
    /\ extractASIN(u) # NoAsin
    /\ scClock' = scClock + 1
    /\ LET asin == extractASIN(u)
           data == [Book(TitleT, AuthorA, b) EXCEPT !.url = u]
       IN  /\ scBooks' = Upsert(scBooks, asin, data, scClock', scVariant)
           /\ IF scFirst[asin] = <<>>
              THEN /\ scFirst' = [scFirst EXCEPT ![asin] = <<scClock'>>]
                   /\ UNCHANGED scLater
              ELSE /\ scLater' = [scLater EXCEPT ![asin] =
                                    Append(@, [timestamp |-> scClock',
                                               bsr |-> b])]
                   /\ UNCHANGED scFirst
    /\ UNCHANGED scVariant
    /\ UNCHANGED scFrame

\* one submission of the loop whose scrapeBook() returned success:false
ScrapeFailure(u) ==
    /\ scClock < MaxRuns
    /\ scClock' = scClock + 1
    /\ UNCHANGED <<scVariant, scBooks, scFirst, scLater>>
    /\ UNCHANGED scFrame

\* ------------------------------------------------- the stages of one cycle
\* cycle.js:304-350 runs scrape(), purge(), cleanup() and publish() in this
\* order on the documents of DATA_DIR; publish() reads <root>/metadata.json
\* (publisher.js:222), which is the same document only if DATA_DIR is <root>
AcquisitionFailed == [success |-> FALSE, data |-> Book(TitleT, AuthorA, BsrPlain)]
Acquisition(book) == [success |-> TRUE, data |-> book]
Acquisitions == {AcquisitionFailed} \cup {Acquisition(b) : b \in PurgerBooks}

Keys(books) == {books[k].asin : k \in 1 .. Len(books)}

\* the loop of processBatch over the queue, from position k on
RECURSIVE ScrapeAll(_, _, _, _)
ScrapeAll(queue, k, books, acquired) ==
    IF k > Len(queue) THEN books
    ELSE LET u == queue[k].url
             ok == extractASIN(u) # NoAsin /\ acquired[u].success
         IN  ScrapeAll(queue, k + 1,
                       IF ok
                       THEN Upsert(books, extractASIN(u), acquired[u].data, k,
                                   "scraper.js:442")
                       ELSE books,
                       acquired)

RunIdle ==
    /\ ruPc = "scrape"
    /\ ruSameDir = TRUE
    /\ ruInput = <<>>
    /\ ruBooks = <<>>
    /\ ruRootBooks = [readable |-> FALSE, books |-> <<>>]
    /\ ruBlacklist = MissingFile
    /\ ruAcquired = [u \in Urls |-> AcquisitionFailed]
    /\ ruPublished = NoOutput
    /\ ruFault = "none"
    /\ ruStart = [queue |-> <<>>, books |-> <<>>]

OtherItem == Entry("B000000002", Book(TitleParty, AuthorOther, BsrPlain), <<>>, <<>>)

RunInit ==
    /\ ruPc = "scrape"
    /\ ruSameDir \in BOOLEAN
    /\ ruInput \in {<<Submission(Url1)>>, <<Submission(UrlShort), Submission(Url1)>>}
    /\ ruBooks \in {<<>>, <<OtherItem>>}
    /\ IF ruSameDir
       THEN ruRootBooks = [readable |-> TRUE, books |-> ruBooks]
       ELSE ruRootBooks \in {[readable |-> FALSE, books |-> <<>>],
                             [readable |-> TRUE, books |-> <<>>],
                             [readable |-> TRUE, books |-> <<OtherItem>>]}
    /\ ruBlacklist \in BlacklistFiles
    /\ \E a \in Acquisitions :
          ruAcquired = [u \in Urls |-> IF u = Url1 THEN a ELSE AcquisitionFailed]
    /\ ruPublished = NoOutput
    /\ ruFault = "none"
    /\ ruStart = [queue |-> ruInput, books |-> ruBooks]

\* a stage returned success:false: cycle.js:308-310 and alike throw
RunFails(stage) ==
    /\ ruPc' = "failed"
    /\ ruFault' = stage
    /\ UNCHANGED <<ruInput, ruBooks, ruRootBooks, ruPublished>>

\* writes to DATA_DIR/metadata.json reach publish() only in the same directory
RootAfter(books) ==
    IF ruSameDir THEN [readable |-> TRUE, books |-> books] ELSE ruRootBooks

RunScrape ==
    /\ ruPc = "scrape"
    /\ \/ RunFails("scrape")
       \/ /\ ruBooks' = ScrapeAll(ruInput, 1, ruBooks, ruAcquired)
          /\ ruRootBooks' = RootAfter(ruBooks')
          /\ ruPc' = "purge"
          /\ UNCHANGED <<ruInput, ruPublished, ruFault>>
    /\ UNCHANGED <<ruSameDir, ruBlacklist, ruAcquired, ruStart>>
    /\ UNCHANGED ruFrame

RunPurge ==
    /\ ruPc = "purge"
    /\ \/ RunFails("purge")
       \/ LET loaded == LoadBlacklist(ruBlacklist, "scripts/purger.js")
              keptIdx ==
                SelectSeq(Indices(ruBooks),
                          LAMBDA k : ~Verdicts["scripts/purger.js"][ruBlacklist]
                                              [ruBooks[k].book].isBlacklisted)
          IN  /\ ~loaded.threw
              /\ ruBooks' = [j \in 1 .. Len(keptIdx) |-> ruBooks[keptIdx[j]]]
              /\ ruRootBooks' = RootAfter(ruBooks')
              /\ ruPc' = "cleanup"
              /\ UNCHANGED <<ruInput, ruPublished, ruFault>>
    /\ UNCHANGED <<ruSameDir, ruBlacklist, ruAcquired, ruStart>>
    /\ UNCHANGED ruFrame

RunCleanup ==
    /\ ruPc = "cleanup"
    /\ \/ RunFails("cleanup")
       \/ LET rs == [k \in 1 .. Len(ruInput) |->
                       CleanOne(ruInput[k], Keys(ruBooks), "scripts/cleaner.js")]
          IN  /\ ruInput' = KeptSubmissions(rs)
              /\ ruPc' = "publish"
              /\ UNCHANGED <<ruBooks, ruRootBooks, ruPublished, ruFault>>
    /\ UNCHANGED <<ruSameDir, ruBlacklist, ruAcquired, ruStart>>
    /\ UNCHANGED ruFrame

RunPublish ==
    /\ ruPc = "publish"
    /\ \/ RunFails("publish")
       \/ IF ~ruRootBooks.readable
          THEN /\ ruPc' = "failed"
               /\ UNCHANGED <<ruPublished, ruFault>>
          ELSE LET v == validateOutput(transformToOutput(ruRootBooks))
               IN  IF v.threw
                   THEN /\ ruPc' = "failed"
                        /\ UNCHANGED <<ruPublished, ruFault>>
                   ELSE /\ ruPublished' = v.output
                        /\ ruPc' = "done"
                        /\ UNCHANGED ruFault
       /\ UNCHANGED <<ruInput, ruBooks, ruRootBooks>>
    /\ UNCHANGED <<ruSameDir, ruBlacklist, ruAcquired, ruStart>>
    /\ UNCHANGED ruFrame

\* ------------------------------------------------- POST /submit-url (server)
\* the requests that may be in flight in the one Node process
Req == {"r1", "r2"}

\* req.ip: the two requests come from two clients
IpOf == [r \in Req |-> IF r = "r1" THEN "ip1" ELSE "ip2"]

UrlForeign == "https://example.com/dp/B000000003"
Pad40 == "0123456789012345678901234567890123456789"
UrlLong == Url1 \o "?ref=" \o Pad40 \o Pad40 \o Pad40
SubmittedUrls == {Url1, Url2, UrlForeign, UrlLong}

\* server.js:156  url.includes('amazon.com') && url.includes('/dp/'),
\* evaluated on SubmittedUrls
IsAmazonUrl(url) == url \in {Url1, Url2, UrlLong}

\* server.js:161  if (url.length > 150)
UrlLimit == 150

\* server.js:34  retries = 3
Retries == 3

InputAbsent == [kind |-> "absent", subs |-> <<>>]
InputPartial == [kind |-> "partial", subs |-> <<>>]
InputDoc(subs) == [kind |-> "doc", subs |-> subs]

\* server.js:208-213  newSubmission
NewSubmission(url, ip, bypass) ==
    [url |-> url, day |-> "today", ip |-> ip, bypassed |-> bypass]

NoRequest == [url |-> "", ip |-> "", bypass |-> FALSE]

\* server.js:90-112  canUserSubmitToday: a file that cannot be read or
\* parsed answers false
canUserSubmitToday(file, ip) ==
    /\ file.kind = "doc"
    /\ \A k \in 1 .. Len(file.subs) :
           ~(file.subs[k].ip = ip /\ file.subs[k].day = "today")

\* server.js:203  json.submissions.some(submission => submission.url === url)
AlreadySubmitted(subs, url) == \E k \in 1 .. Len(subs) : subs[k].url = url

\* server.js:188-201  the contents of input.json as the handler takes them:
\* a missing or unparsable file starts fresh
ParsedSubmissions(file) == IF file.kind = "doc" THEN file.subs ELSE <<>>

SubmitIdle ==
    /\ sbFile = InputAbsent
    /\ sbBackup = InputAbsent
    /\ sbLimiter = FALSE
    /\ sbReq = [r \in Req |-> NoRequest]
    /\ sbPc = [r \in Req |-> "idle"]
    /\ sbJson = [r \in Req |-> <<>>]
    /\ sbCur = [r \in Req |-> InputAbsent]
    /\ sbAttempt = [r \in Req |-> 0]
    /\ sbAnswer = [r \in Req |-> "none"]

SubmitInit ==
    /\ sbFile \in {InputAbsent, InputDoc(<<>>),
                   InputDoc(<<NewSubmission(Url2, "ip1", FALSE)>>)}
    /\ sbBackup = InputAbsent
    /\ sbLimiter \in BOOLEAN
    /\ sbReq = [r \in Req |-> NoRequest]
    /\ sbPc = [r \in Req |-> "idle"]
    /\ sbJson = [r \in Req |-> <<>>]
    /\ sbCur = [r \in Req |-> InputAbsent]
    /\ sbAttempt = [r \in Req |-> 0]
    /\ sbAnswer = [r \in Req |-> "none"]

\* res.json(...): the request is answered and the handler returns
Answer(r, a) ==
    /\ sbAnswer' = Set(sbAnswer, r, a)
    /\ sbPc' = Set(sbPc, r, "done")

\* server.js:42-51  the inner catch of the backup step: the last attempt
\* rethrows into the outer catch, the others go to the next attempt
BackupFails(r) ==
    IF sbAttempt[r] = Retries
    THEN /\ sbPc' = Set(sbPc, r, "restoreRead")
         /\ UNCHANGED sbAttempt
    ELSE /\ sbPc' = Set(sbPc, r, "backupRead")
         /\ sbAttempt' = Set(sbAttempt, r, sbAttempt[r] + 1)

\* server.js:79-84  catch (restoreError), and the throw of line 75 that it
\* catches: the last attempt throws out of safeWriteJSON, the others go on
RestoreEnds(r) ==
    IF sbAttempt[r] = Retries
    THEN /\ Answer(r, "Could not save submission. Please try again.")
         /\ UNCHANGED sbAttempt
    ELSE /\ sbPc' = Set(sbPc, r, "backupRead")
         /\ sbAttempt' = Set(sbAttempt, r, sbAttempt[r] + 1)
         /\ UNCHANGED sbAnswer

\* server.js:150-185  a request arrives: validation, then the limiter
SubmitUrl(r) ==
    /\ sbPc[r] = "idle"
    /\ \E url \in SubmittedUrls, bypass \in BOOLEAN :
        /\ sbReq' = Set(sbReq, r, [url |-> url, ip |-> IpOf[r], bypass |-> bypass])
        /\ IF ~IsAmazonUrl(url)
           THEN Answer(r, "Invalid Amazon URL")
           ELSE IF Len(url) > UrlLimit
           THEN Answer(r, "URL is too long (maximum 150 characters)")
           ELSE /\ sbPc' = Set(sbPc, r, IF ~bypass /\ sbLimiter
                                         THEN "limit" ELSE "read")
                /\ UNCHANGED sbAnswer
    /\ UNCHANGED <<sbFile, sbBackup, sbLimiter, sbJson, sbCur, sbAttempt>>
    /\ UNCHANGED sbFrame

\* server.js:168  await canUserSubmitToday(ip)
SubmitLimit(r) ==
    /\ sbPc[r] = "limit"
    /\ \/ /\ canUserSubmitToday(sbFile, sbReq[r].ip)
          /\ sbPc' = Set(sbPc, r, "read")
          /\ UNCHANGED sbAnswer
       \/ /\ ~canUserSubmitToday(sbFile, sbReq[r].ip)
          /\ Answer(r, "You have already submitted a URL today. Please try again tomorrow.")
       \/ \* readFile fails: canUserSubmitToday catches and returns false
          /\ sbFile.kind # "absent"
          /\ Answer(r, "You have already submitted a URL today. Please try again tomorrow.")
    /\ UNCHANGED <<sbFile, sbBackup, sbLimiter, sbReq, sbJson, sbCur, sbAttempt>>
    /\ UNCHANGED sbFrame

\* server.js:186-218  read input.json, refuse a duplicate, push the new
\* submission and call safeWriteJSON(inputPath, json)
SubmitRead(r) ==
    /\ sbPc[r] = "read"
    /\ \/ LET subs == ParsedSubmissions(sbFile) IN
          IF AlreadySubmitted(subs, sbReq[r].url)
          THEN /\ Answer(r, "URL already submitted")
               /\ UNCHANGED <<sbJson, sbAttempt>>
          ELSE /\ sbJson' = Set(sbJson, r,
                       Append(subs, NewSubmission(sbReq[r].url, sbReq[r].ip,
                                                  sbReq[r].bypass)))
               /\ sbAttempt' = Set(sbAttempt, r, 1)
               /\ sbPc' = Set(sbPc, r, "backupRead")
               /\ UNCHANGED sbAnswer
       \/ \* an error other than ENOENT or SyntaxError
          /\ sbFile.kind # "absent"
          /\ Answer(r, "Could not read submission data. Please try again.")
          /\ UNCHANGED <<sbJson, sbAttempt>>
    /\ UNCHANGED <<sbFile, sbBackup, sbLimiter, sbReq, sbCur>>
    /\ UNCHANGED sbFrame

\* server.js:41  const currentData = await fs.readFile(filePath, 'utf8')
SubmitBackupRead(r) ==
    /\ sbPc[r] = "backupRead"
    /\ \/ /\ sbFile.kind = "absent"
          /\ sbPc' = Set(sbPc, r, "writeOpen")
          /\ UNCHANGED <<sbCur, sbAttempt>>
       \/ /\ sbFile.kind # "absent"
          /\ sbCur' = Set(sbCur, r, sbFile)
          /\ sbPc' = Set(sbPc, r, "backupOpen")
          /\ UNCHANGED sbAttempt
       \/ /\ sbFile.kind # "absent"
          /\ BackupFails(r)
          /\ UNCHANGED sbCur
    /\ UNCHANGED <<sbFile, sbBackup, sbLimiter, sbReq, sbJson, sbAnswer>>
    /\ UNCHANGED sbFrame

\* server.js:42  await fs.writeFile(backupPath, currentData): the file is
\* opened and truncated, then filled
SubmitBackupOpen(r) ==
    /\ sbPc[r] = "backupOpen"
    /\ \/ /\ sbBackup' = InputPartial
          /\ sbPc' = Set(sbPc, r, "backupFinish")
          /\ UNCHANGED sbAttempt
       \/ /\ BackupFails(r)
          /\ UNCHANGED sbBackup
    /\ UNCHANGED <<sbFile, sbLimiter, sbReq, sbJson, sbCur, sbAnswer>>
    /\ UNCHANGED sbFrame

SubmitBackupFinish(r) ==
    /\ sbPc[r] = "backupFinish"
    /\ \/ /\ sbBackup' = sbCur[r]
          /\ sbPc' = Set(sbPc, r, "writeOpen")
          /\ UNCHANGED sbAttempt
       \/ /\ BackupFails(r)
          /\ UNCHANGED sbBackup
    /\ UNCHANGED <<sbFile, sbLimiter, sbReq, sbJson, sbCur, sbAnswer>>
    /\ UNCHANGED sbFrame

\* server.js:54  await fs.writeFile(filePath, JSON.stringify(data, null, 4))
SubmitWriteOpen(r) ==
    /\ sbPc[r] = "writeOpen"
    /\ \/ /\ sbFile' = InputPartial
          /\ sbPc' = Set(sbPc, r, "writeFinish")
       \/ /\ sbPc' = Set(sbPc, r, "restoreRead")
          /\ UNCHANGED sbFile
    /\ UNCHANGED <<sbBackup, sbLimiter, sbReq, sbJson, sbCur, sbAttempt,
                   sbAnswer>>
    /\ UNCHANGED sbFrame

SubmitWriteFinish(r) ==
    /\ sbPc[r] = "writeFinish"
    /\ \/ /\ sbFile' = InputDoc(sbJson[r])
          /\ sbPc' = Set(sbPc, r, "unlink")
       \/ /\ sbPc' = Set(sbPc, r, "restoreRead")
          /\ UNCHANGED sbFile
    /\ UNCHANGED <<sbBackup, sbLimiter, sbReq, sbJson, sbCur, sbAttempt,
                   sbAnswer>>
    /\ UNCHANGED sbFrame

\* server.js:57-66  await fs.unlink(backupPath), every error ignored; then
\* safeWriteJSON returns and the handler answers success (server.js:220-222)
SubmitUnlink(r) ==
    /\ sbPc[r] = "unlink"
    /\ sbBackup' \in {InputAbsent, sbBackup}
    /\ Answer(r, "success")
    /\ UNCHANGED <<sbFile, sbLimiter, sbReq, sbJson, sbCur, sbAttempt>>
    /\ UNCHANGED sbFrame

\* server.js:70  const backup = await fs.readFile(backupPath, 'utf8')
SubmitRestoreRead(r) ==
    /\ sbPc[r] = "restoreRead"
    /\ \/ /\ sbBackup.kind # "absent"
          /\ sbCur' = Set(sbCur, r, sbBackup)
          /\ sbPc' = Set(sbPc, r, "restoreOpen")
          /\ UNCHANGED <<sbAttempt, sbAnswer>>
       \/ /\ RestoreEnds(r)
          /\ UNCHANGED sbCur
    /\ UNCHANGED <<sbFile, sbBackup, sbLimiter, sbReq, sbJson>>
    /\ UNCHANGED sbFrame

\* server.js:71  await fs.writeFile(filePath, backup)
SubmitRestoreOpen(r) ==
    /\ sbPc[r] = "restoreOpen"
    /\ \/ /\ sbFile' = InputPartial
          /\ sbPc' = Set(sbPc, r, "restoreFinish")
          /\ UNCHANGED <<sbAttempt, sbAnswer>>
       \/ /\ RestoreEnds(r)
          /\ UNCHANGED sbFile
    /\ UNCHANGED <<sbBackup, sbLimiter, sbReq, sbJson, sbCur>>
    /\ UNCHANGED sbFrame

\* server.js:72-78  the restore is written; the last attempt throws, the
\* others wait 1000 * attempt ms
SubmitRestoreFinish(r) ==
    /\ sbPc[r] = "restoreFinish"
    /\ \/ /\ sbFile' = sbCur[r]
          /\ IF sbAttempt[r] = Retries
             THEN Answer(r, "Could not save submission. Please try again.")
             ELSE /\ sbPc' = Set(sbPc, r, "wait")
                  /\ UNCHANGED sbAnswer
          /\ UNCHANGED sbAttempt
       \/ /\ RestoreEnds(r)
          /\ UNCHANGED sbFile
    /\ UNCHANGED <<sbBackup, sbLimiter, sbReq, sbJson, sbCur>>
    /\ UNCHANGED sbFrame

\* server.js:78  the timer fires and the loop goes to the next attempt
SubmitWait(r) ==
    /\ sbPc[r] = "wait"
    /\ sbAttempt' = Set(sbAttempt, r, sbAttempt[r] + 1)
    /\ sbPc' = Set(sbPc, r, "backupRead")
    /\ UNCHANGED <<sbFile, sbBackup, sbLimiter, sbReq, sbJson, sbCur, sbAnswer>>
    /\ UNCHANGED sbFrame

\* ------------------------------------- standalone handlers beside a cycle
RootMetadata == "<root>/metadata.json"

\* the stage functions each route of server.js awaits, in order; "limiter"
\* is the read-modify-write of /toggle-limiter (server.js:128-133)
RouteStages(route) ==
    CASE route = "/update-leaderboard" -> <<"scrape", "publish">>
      [] route = "/purge-leaderboard" -> <<"purge", "publish">>
      [] route = "/publish" -> <<"publish">>
      [] route = "/purge" -> <<"purge">>
      [] route = "/cleanup" -> <<"cleanup">>
      [] OTHER -> <<"limiter">>

Routes == {"/update-leaderboard", "/purge-leaderboard", "/publish", "/purge",
           "/cleanup", "/toggle-limiter"}

\* the documents a handler's stage writes
HandlerWrites(stage) ==
    IF stage = "limiter" THEN {RootMetadata} ELSE StageWrites(stage)

\* path.join(__dirname, 'metadata.json') is the item database when DATA_DIR
\* is the directory of server.js
Resolve(doc, sameDir) ==
    IF sameDir /\ doc = RootMetadata THEN "metadata.json" ELSE doc

HandlerDocs == {"metadata.json", RootMetadata} \cup OtherDocs

Written(writer, written, sameDir) ==
    [d \in HandlerDocs |->
        IF \E w \in written : Resolve(w, sameDir) = d THEN writer ELSE hdWriter[d]]

HandlersIdle ==
    /\ hdSameDir = FALSE
    /\ hdLock = FALSE
    /\ hdCyclePc = "idle"
    /\ hdStage = 0
    /\ hdRoute = "none"
    /\ hdStep = 0
    /\ hdRequests = 0
    /\ hdPublishAttempts = 0
    /\ hdWriter = [d \in HandlerDocs |-> "none"]
    /\ hdOverlap = {}

HandlersInit ==
    /\ hdSameDir \in BOOLEAN
    /\ hdLock = FALSE
    /\ hdCyclePc = "idle"
    /\ hdStage = 0
    /\ hdRoute = "none"
    /\ hdStep = 0
    /\ hdRequests = 0
    /\ hdPublishAttempts = 0
    /\ hdWriter = [d \in HandlerDocs |-> "none"]
    /\ hdOverlap = {}

\* cycle.js:43-62  checkLock finds no lock, createLock writes cycle.lock
HandlersCycleLock ==
    /\ hdCyclePc = "idle"
    /\ ~hdLock
    /\ hdLock' = TRUE
    /\ hdCyclePc' = "starting"
    /\ UNCHANGED <<hdSameDir, hdStage, hdRoute, hdStep, hdRequests,
                   hdPublishAttempts, hdWriter, hdOverlap>>
    /\ UNCHANGED hdFrame

\* cycle.js:283-302  initializeFiles and the 'running' cycle_status are
\* written to metadata.json
HandlersCycleStart ==
    /\ hdCyclePc = "starting"
    /\ hdWriter' = Written("cycle", {"metadata.json"}, hdSameDir)
    /\ hdCyclePc' = "running"
    /\ UNCHANGED <<hdSameDir, hdLock, hdStage, hdRoute, hdStep, hdRequests,
                   hdPublishAttempts, hdOverlap>>
    /\ UNCHANGED hdFrame

\* cycle.js:304-350  the cycle awaits its next stage; a stage that fails
\* ends the cycle's work
HandlersCycleStage ==
    /\ hdCyclePc = "running"
    /\ hdStage < Len(StageOrder)
    /\ \E ok \in BOOLEAN :
        IF ok
        THEN /\ hdWriter' = Written("cycle",
                     StageWrites(StageOrder[hdStage + 1]), hdSameDir)
             /\ hdStage' = hdStage + 1
             /\ UNCHANGED hdCyclePc
        ELSE /\ hdWriter' = Written("cycle", {"metadata.json"}, hdSameDir)
             /\ hdCyclePc' = "release"
             /\ UNCHANGED hdStage
    /\ UNCHANGED <<hdSameDir, hdLock, hdRoute, hdStep, hdRequests,
                   hdPublishAttempts, hdOverlap>>
    /\ UNCHANGED hdFrame

\* the four stages have returned: the 'completed' cycle_status is written
HandlersCycleEnd ==
    /\ hdCyclePc = "running"
    /\ hdStage = Len(StageOrder)
    /\ hdWriter' = Written("cycle", {"metadata.json"}, hdSameDir)
    /\ hdCyclePc' = "release"
    /\ UNCHANGED <<hdSameDir, hdLock, hdStage, hdRoute, hdStep, hdRequests,
                   hdPublishAttempts, hdOverlap>>
    /\ UNCHANGED hdFrame

\* cycle.js:65-85  releaseLock
HandlersCycleRelease ==
    /\ hdCyclePc = "release"
    /\ hdLock' = FALSE
    /\ hdCyclePc' = "done"
    /\ UNCHANGED <<hdSameDir, hdStage, hdRoute, hdStep, hdRequests,
                   hdPublishAttempts, hdWriter, hdOverlap>>
    /\ UNCHANGED hdFrame

\* server.js:367  maxAttempts: 1
MaxAttempts == 1

\* server.js:369-382  publishRateLimiter.isRateLimited(ip), all requests
\* coming from one address within one window
isRateLimited(attempts) == attempts >= MaxAttempts

\* a request arrives at one of the routes; none of them looks at cycle.lock.
\* /publish answers 429 when the rate limiter refuses (server.js:412-421),
\* /toggle-limiter refuses a body whose enabled is no boolean (118-123)
HandlerRequest ==
    /\ hdRoute = "none"
    /\ hdRequests < MaxCalls
    /\ hdRequests' = hdRequests + 1
    /\ \E route \in Routes, validBody \in BOOLEAN :
        IF \/ route = "/publish" /\ isRateLimited(hdPublishAttempts)
           \/ route = "/toggle-limiter" /\ ~validBody
        THEN UNCHANGED <<hdRoute, hdPublishAttempts>>
        ELSE /\ hdRoute' = route
             /\ hdPublishAttempts' =
                    IF route = "/publish" THEN hdPublishAttempts + 1
                    ELSE hdPublishAttempts
    /\ hdStep' = 0
    /\ UNCHANGED <<hdSameDir, hdLock, hdCyclePc, hdStage, hdWriter, hdOverlap>>
    /\ UNCHANGED hdFrame

\* the handler awaits its next stage function, which writes its documents;
\* a stage that fails ends the handler
HandlerStage ==
    /\ hdRoute # "none"
    /\ hdStep < Len(RouteStages(hdRoute))
    /\ \E ok \in BOOLEAN :
        IF ok
        THEN LET written == HandlerWrites(RouteStages(hdRoute)[hdStep + 1]) IN
             /\ hdWriter' = Written(hdRoute, written, hdSameDir)
             /\ hdOverlap' =
                    IF hdLock
                    THEN hdOverlap \cup {Resolve(d, hdSameDir) : d \in written}
                    ELSE hdOverlap
             /\ hdStep' = hdStep + 1
             /\ UNCHANGED hdRoute
        ELSE /\ hdRoute' = "none"
             /\ hdStep' = 0
             /\ UNCHANGED <<hdWriter, hdOverlap>>
    /\ UNCHANGED <<hdSameDir, hdLock, hdCyclePc, hdStage, hdRequests,
                   hdPublishAttempts>>
    /\ UNCHANGED hdFrame

\* res.json(...): the handler's stages have returned
HandlerAnswer ==
    /\ hdRoute # "none"
    /\ hdStep = Len(RouteStages(hdRoute))
    /\ hdRoute' = "none"
    /\ hdStep' = 0
    /\ UNCHANGED <<hdSameDir, hdLock, hdCyclePc, hdStage, hdRequests,
                   hdPublishAttempts, hdWriter, hdOverlap>>
    /\ UNCHANGED hdFrame

\* ------------------------------------------------- scrape(): the whole loop
\* a submission whose url field is missing
UrlUndefined == "undefined"

AcquireVariants == {"scraper.js:442", "scraper.js:1165"}

\* what fetchPage(url) gives: a rejection, or a page on which the extract*
\* helpers and verifyPaperback find or miss their pattern
Rejected == [fetched |-> FALSE, paperback |-> FALSE, bsr |-> FALSE,
             title |-> FALSE, author |-> FALSE, cover |-> FALSE]
Page(p, b, t, a, c) == [fetched |-> TRUE, paperback |-> p, bsr |-> b,
                        title |-> t, author |-> a, cover |-> c]
FullPage == Page(TRUE, TRUE, TRUE, TRUE, TRUE)
Pages == {Rejected, FullPage, Page(FALSE, TRUE, TRUE, TRUE, TRUE),
          Page(TRUE, FALSE, TRUE, TRUE, TRUE),
          Page(TRUE, TRUE, FALSE, TRUE, TRUE),
          Page(TRUE, TRUE, TRUE, FALSE, TRUE),
          Page(TRUE, TRUE, TRUE, TRUE, FALSE)}

Classified(c, requested) == [class |-> c, requested |-> requested, threw |-> FALSE]

\* scraper.js:370-440  scrapeBook: the page is fetched first, then the key is
\* extracted; every exception is classified network_error
scrapeBookFetchFirst(url, page) ==
    IF ~page.fetched \/ url = UrlUndefined THEN Classified("network_error", TRUE)
    ELSE IF extractASIN(url) = NoAsin THEN Classified("invalid_asin", TRUE)
    ELSE IF ~page.paperback THEN Classified("not_paperback", TRUE)
    ELSE IF ~page.bsr THEN Classified("missing_bsr", TRUE)
    ELSE IF ~page.title \/ ~page.author \/ ~page.cover
    THEN Classified("missing_metadata", TRUE)
    ELSE Classified("success", TRUE)

\* scraper.js:1080-1162  scrapeBook: extractASIN(url) runs outside the try,
\* a missing cover does not fail the attempt
scrapeBookKeyFirst(url, page) ==
    IF url = UrlUndefined
    THEN [class |-> "none", requested |-> FALSE, threw |-> TRUE]
    ELSE IF extractASIN(url) = NoAsin
    THEN Classified("Invalid ASIN in URL", FALSE)
    ELSE IF ~page.fetched THEN Classified("error.message", TRUE)
    ELSE IF ~page.title THEN Classified("Could not extract title", TRUE)
    ELSE IF ~page.author THEN Classified("Could not extract author", TRUE)
    ELSE IF ~page.paperback THEN Classified("Not a paperback listing", TRUE)
    ELSE IF ~page.bsr THEN Classified("Could not extract BSR", TRUE)
    ELSE Classified("success", TRUE)

scrapeBook(variant, url, page) ==
    IF variant = "scraper.js:442" THEN scrapeBookFetchFirst(url, page)
    ELSE scrapeBookKeyFirst(url, page)

MetadataAbsent == [kind |-> "absent", keys |-> {}]
MetadataPartial == [kind |-> "partial", keys |-> {}]
MetadataDoc(keys) == [kind |-> "doc", keys |-> keys]

AcquireQueues ==
    {<<>>} \cup DistinctSeqs(Urls \cup {UrlUndefined}, MaxQueue)

AcquireIdle ==
    /\ aqVariant = "scraper.js:442"
    /\ aqQueue = <<>>
    /\ aqMem = {}
    /\ aqDisk = MetadataAbsent
    /\ aqPc = "read"
    /\ aqIndex = 0
    /\ aqClass = <<>>
    /\ aqPage = <<>>
    /\ aqRequested = {}
    /\ aqFaults = {}
    /\ aqResult = "none"

AcquireInit ==
    /\ aqVariant \in AcquireVariants
    /\ aqQueue \in AcquireQueues
    /\ aqMem = {}
    /\ aqDisk \in {MetadataAbsent} \cup {MetadataDoc(ks) : ks \in SUBSET Asins}
    /\ aqPc = "read"
    /\ aqIndex = 0
    /\ aqClass = [k \in 1 .. Len(aqQueue) |-> "none"]
    /\ aqPage = [k \in 1 .. Len(aqQueue) |-> Rejected]
    /\ aqRequested = {}
    /\ aqFaults = {}
    /\ aqResult = "none"

\* the loop goes on with the next submission, or leaves for the final write
\* of scrape() (scraper.js:551-554)
Continue(i, n) ==
    IF i < n THEN [pc |-> "scrape", index |-> i + 1]
    ELSE [pc |-> "finalOpen", index |-> i]

AfterSubmissionErrorAbort(i, n) == [pc |-> "done", index |-> i]
\* scraper.js:484-486  the catch inside the for loop of processBatch logs the
\* error and the loop goes on
AfterSubmissionError(i, n) == Continue(i, n)

\* an error thrown by safeWriteJSON: the write of one submission is inside
\* the try of processBatch, the first and the last write of scrape() are
\* caught by scrape() itself, which returns success:false (scraper.js:571-577)
AcquireWriteThrows(phase) ==
    /\ aqFaults' = aqFaults \cup {phase}
    /\ IF phase = "sub"
       THEN LET next == AfterSubmissionError(aqIndex, Len(aqQueue)) IN
            /\ aqPc' = next.pc
            /\ aqIndex' = next.index
            /\ aqResult' = IF next.pc = "done" THEN "failure" ELSE aqResult
       ELSE /\ aqPc' = "done"
            /\ aqResult' = "failure"
            /\ UNCHANGED aqIndex

PhaseOf(position) ==
    CASE position \in {"initOpen", "initFinish"} -> "init"
      [] position \in {"subOpen", "subFinish"} -> "sub"
      [] OTHER -> "final"

\* scraper.js:494-508  input.json and metadata.json are read; a missing
\* metadata.json starts an empty database, any other error fails the stage
AcquireRead ==
    /\ aqPc = "read"
    /\ \E ok \in BOOLEAN :
        IF ok
        THEN /\ aqMem' = aqDisk.keys
             /\ aqPc' = "initOpen"
             /\ UNCHANGED <<aqFaults, aqResult>>
        ELSE /\ aqFaults' = aqFaults \cup {"read"}
             /\ aqPc' = "done"
             /\ aqResult' = "failure"
             /\ UNCHANGED aqMem
    /\ UNCHANGED <<aqVariant, aqQueue, aqDisk, aqIndex, aqClass, aqPage,
                   aqRequested>>
    /\ UNCHANGED aqFrame

\* safeWriteJSON(metadataPath, metadata) (scraper.js:341-367): the backup is
\* made and fs.writeFile opens and truncates metadata.json
AcquireWriteOpen ==
    /\ aqPc \in {"initOpen", "subOpen", "finalOpen"}
    /\ \/ /\ aqDisk' = MetadataPartial
          /\ aqPc' = CASE aqPc = "initOpen" -> "initFinish"
                       [] aqPc = "subOpen" -> "subFinish"
                       [] OTHER -> "finalFinish"
          /\ UNCHANGED <<aqIndex, aqFaults, aqResult>>
       \/ /\ AcquireWriteThrows(PhaseOf(aqPc))
          /\ UNCHANGED aqDisk
    /\ UNCHANGED <<aqVariant, aqQueue, aqMem, aqClass, aqPage, aqRequested>>
    /\ UNCHANGED aqFrame

\* fs.writeFile fills metadata.json, or fails and leaves it truncated
AcquireWriteFinish ==
    /\ aqPc \in {"initFinish", "subFinish", "finalFinish"}
    /\ \/ /\ aqDisk' = MetadataDoc(aqMem)
          /\ LET next == Continue(aqIndex, Len(aqQueue)) IN
             IF aqPc = "finalFinish"
             THEN /\ aqPc' = "done"
                  /\ aqResult' = "success"
                  /\ UNCHANGED aqIndex
             ELSE /\ aqPc' = next.pc
                  /\ aqIndex' = next.index
                  /\ UNCHANGED aqResult
          /\ UNCHANGED aqFaults
       \/ /\ AcquireWriteThrows(PhaseOf(aqPc))
          /\ UNCHANGED aqDisk
    /\ UNCHANGED <<aqVariant, aqQueue, aqMem, aqClass, aqPage, aqRequested>>
    /\ UNCHANGED aqFrame

\* processBatch: scrapeBook(submission.url) and the upsert of its result
\* (scraper.js:455-470, 1179-1186); the first variant then writes
\* metadata.json, the second runs purge() after the batch of one
AcquireScrape ==
    /\ aqPc = "scrape"
    /\ \E page \in Pages :
        LET url == aqQueue[aqIndex]
            r == scrapeBook(aqVariant, url, page)
        IN  /\ aqPage' = [aqPage EXCEPT ![aqIndex] = page]
            /\ aqClass' = [aqClass EXCEPT ![aqIndex] = r.class]
            /\ aqRequested' = IF r.requested THEN aqRequested \cup {aqIndex}
                              ELSE aqRequested
            /\ aqMem' = IF r.class = "success"
                        THEN aqMem \cup {extractASIN(url)} ELSE aqMem
            /\ IF r.threw
               THEN /\ aqPc' = "done"
                    /\ aqResult' = "failure"
               ELSE /\ aqPc' = IF aqVariant = "scraper.js:442"
                               THEN "subOpen" ELSE "purge"
                    /\ UNCHANGED aqResult
    /\ UNCHANGED <<aqVariant, aqQueue, aqDisk, aqIndex, aqFaults>>
    /\ UNCHANGED aqFrame

\* scraper.js:1249-1260  purge() after each batch: it filters the document
\* on disk; its failure is only logged
AcquirePurge ==
    /\ aqPc = "purge"
    /\ \E ok \in BOOLEAN, removed \in SUBSET aqDisk.keys :
        IF ok /\ aqDisk.kind = "doc"
        THEN /\ aqDisk' = MetadataDoc(aqDisk.keys \ removed)
             /\ UNCHANGED aqFaults
        ELSE /\ aqFaults' = aqFaults \cup {"purge"}
             /\ UNCHANGED aqDisk
    /\ LET next == Continue(aqIndex, Len(aqQueue)) IN
        /\ aqPc' = next.pc
        /\ aqIndex' = next.index
    /\ UNCHANGED <<aqVariant, aqQueue, aqMem, aqClass, aqPage, aqRequested,
                   aqResult>>
    /\ UNCHANGED aqFrame

\* the process dies between two steps of scrape()
AcquireCrash ==
    /\ aqPc \notin {"done", "crashed"}
    /\ aqPc' = "crashed"
    /\ aqFaults' = aqFaults \cup {"crash:" \o aqPc}
    /\ UNCHANGED <<aqVariant, aqQueue, aqMem, aqDisk, aqIndex, aqClass, aqPage,
                   aqRequested, aqResult>>
    /\ UNCHANGED aqFrame

\* ------------------------------------------------------ fetchPage (scraper)
Levels == 0 .. maxRetries

\* scraper.js:124, 146, 169, 187  Math.pow(2, retryCount) * baseDelay
delayTime(retryCount) == (2 ^ retryCount) * baseDelay

\* how one request ends: a page, a redirect (301/302 with a location), HTTP
\* 429/503, a CAPTCHA page, the 'error' event, the 'timeout' event while the
\* body arrives, or the 'timeout' event before the response, after which
\* request.destroy() emits 'error' (socket hang up) on the request as well
Failing == {"status", "challenge", "error", "timeout", "timeoutAndError"}
Kinds == {"page", "redirect"} \cup Failing

RECURSIVE SumTo(_, _)
SumTo(f, n) == IF n < 0 THEN 0 ELSE f[n] + SumTo(f, n - 1)
Outstanding == SumTo(fpOut, maxRetries)
Attempts == SumTo(fpIssued, maxRetries)

\* the handlers that start a retry when a request ends: both the timeout
\* handler and the error handler when destroy() fires the latter
HandlersFired(kind) == IF kind = "timeoutAndError" THEN 2 ELSE 1

FetchIdle ==
    /\ fpOut = [k \in Levels |-> 0]
    /\ fpTimers = [k \in Levels |-> 0]
    /\ fpIssued = [k \in Levels |-> 0]
    /\ fpWaited = [k \in Levels |-> 0]
    /\ fpKinds = {}
    /\ fpHops = 0
    /\ fpDestroyErrors = 0
    /\ fpSettled = "pending"
    /\ fpClass = "none"
    /\ fpUrl = "submitted"

\* scraper.js:372  scrapeBook: const html = await fetchPage(url)
FetchStart ==
    /\ Attempts = 0
    /\ fpOut' = [fpOut EXCEPT ![0] = 1]
    /\ fpIssued' = [fpIssued EXCEPT ![0] = 1]
    /\ UNCHANGED <<fpTimers, fpWaited, fpKinds, fpHops, fpDestroyErrors,
                   fpSettled, fpClass, fpUrl>>
    /\ UNCHANGED fpFrame

\* the first resolve or reject that reaches the promise of the first call
\* settles it; scrapeBook goes on with the page or returns network_error
\* (scraper.js:431-438)
Settle(outcome) ==
    IF fpSettled = "pending"
    THEN /\ fpSettled' = outcome
         /\ fpClass' = IF outcome = "rejected" THEN "network_error"
                       ELSE "fetched"
    ELSE UNCHANGED <<fpSettled, fpClass>>

\* res.headers.location of a 301/302 response: the server of the model
\* sends each of two addresses to the other
Location(url) == IF url = "submitted" THEN "redirected" ELSE "submitted"

\* one outstanding request with retryCount k ends (scraper.js:103-199)
FetchEnd(k, kind) ==
    /\ fpOut[k] > 0
    /\ kind = "redirect" => fpHops < MaxHops
    /\ kind = "timeoutAndError" => fpDestroyErrors < MaxDestroyErrors
    /\ fpKinds' = fpKinds \cup {kind}
    /\ fpDestroyErrors' = IF kind = "timeoutAndError"
                          THEN fpDestroyErrors + 1 ELSE fpDestroyErrors
    /\ CASE kind = "page" ->
              /\ fpOut' = [fpOut EXCEPT ![k] = @ - 1]
              /\ Settle("resolved")
              /\ UNCHANGED <<fpTimers, fpIssued, fpHops, fpUrl>>
         [] kind = "redirect" ->
              /\ fpIssued' = [fpIssued EXCEPT ![k] = @ + 1]
              /\ fpHops' = fpHops + 1
              /\ fpUrl' = Location(fpUrl)
              /\ UNCHANGED <<fpOut, fpTimers, fpSettled, fpClass>>
         [] OTHER ->
              /\ fpOut' = [fpOut EXCEPT ![k] = @ - 1]
              /\ IF k < maxRetries
                 THEN /\ fpTimers' = [fpTimers EXCEPT
                                        ![k] = @ + HandlersFired(kind)]
                      /\ UNCHANGED <<fpSettled, fpClass>>
                 ELSE /\ Settle("rejected")
                      /\ UNCHANGED fpTimers
              /\ UNCHANGED <<fpIssued, fpHops, fpUrl>>
    /\ UNCHANGED fpWaited
    /\ UNCHANGED fpFrame

\* await delay(delayTime) is over: fetchPage(url, retryCount + 1, maxRetries)
FetchRetry(k) ==
    /\ k < maxRetries
    /\ fpTimers[k] > 0
    /\ fpTimers' = [fpTimers EXCEPT ![k] = @ - 1]
    /\ fpOut' = [fpOut EXCEPT ![k + 1] = @ + 1]
    /\ fpIssued' = [fpIssued EXCEPT ![k + 1] = @ + 1]
    /\ fpWaited' = [fpWaited EXCEPT ![k] = delayTime(k)]
    /\ UNCHANGED <<fpKinds, fpHops, fpDestroyErrors, fpSettled, fpClass,
                   fpUrl>>
    /\ UNCHANGED fpFrame

\* scraper.js:108-119  a 301/302 response once the chain is longer than
\* MaxHops: fetchPage(res.headers.location, retryCount, maxRetries) is
\* called as for every redirect; the counts of hops and of issued requests,
\* kept for the record, are not carried further
FetchRedirectOn(k) ==
    /\ fpOut[k] > 0
    /\ fpHops = MaxHops
    /\ fpKinds' = fpKinds \cup {"redirect"}
    /\ fpUrl' = Location(fpUrl)
    /\ UNCHANGED <<fpOut, fpTimers, fpIssued, fpWaited, fpHops,
                   fpDestroyErrors, fpSettled, fpClass>>
    /\ UNCHANGED fpFrame

\* ------------------------------------------- isAuthorMatch on its own
\* author names and blacklist entries: empty and missing ones, names that
\* differ in case, punctuation and spacing only, names one of which
\* contains the other, names that share a last token of more or of exactly
\* three characters
AuthorNames ==
    {Undefined, Str(<<>>), AuthorA, AuthorOther, AuthorListed,
     Str(<<"b", "o", "b", " ", " ", "R", "A", "Y", ".">>),
     Str(<<"A", "n", "n", " ", "R", "a", "y">>),
     Str(<<"R", "a", "y">>),
     Str(<<"W", ".", " ", "S", "h", "a", "k", "e", "s", "p", "e", "a", "r", "e">>),
     Str(<<"S", "h", "a", "k", "e">>),
     Str(<<".", ".", ".">>)}

NoVerdict == [isBlacklisted |-> FALSE, reason |-> "", matchedPattern |-> Undefined,
              threw |-> FALSE]

MatchIdle ==
    /\ maAuthor = Undefined
    /\ maEntry = Undefined
    /\ maPc = "input"
    /\ maResult = FALSE
    /\ maVerdict = NoVerdict

MatchInit ==
    /\ maAuthor \in AuthorNames
    /\ maEntry \in AuthorNames
    /\ maPc = "input"
    /\ maResult = FALSE
    /\ maVerdict = NoVerdict

\* purger.js:412-429  isBlacklisted(book, blacklist) for an item with this
\* author and a blacklist whose authors list holds this one entry
MatchAuthor ==
    /\ maPc = "input"
    /\ maPc' = "done"
    /\ maResult' = isAuthorMatch(maAuthor, maEntry)
    /\ maVerdict' = isBlacklisted(Book(TitleT, maAuthor, BsrPlain),
                                  Blacklist(<<maEntry>>, <<>>, <<>>),
                                  "scripts/purger.js")
    /\ UNCHANGED <<maAuthor, maEntry>>
    /\ UNCHANGED maFrame

StagesIdle ==
    CleanerIdle /\ PublisherIdle /\ PurgerIdle /\ ScraperIdle /\ RunIdle

ServerIdle == SubmitIdle /\ HandlersIdle /\ AcquireIdle /\ FetchIdle /\ MatchIdle

\* ------------------------------------------------------------------ specs
Init == CycleInit /\ WriteIdle /\ StagesIdle /\ ServerIdle

Next ==
    \/ \E i \in Inv : Invoke(i)
    \/ \E i \in Inv : LockAccess(i)
    \/ \E i \in Inv : LockStat(i)
    \/ \E i \in Inv : LockUnlink(i)
    \/ \E i \in Inv : CreateLock(i)
    \/ \E i \in Inv : InitializeFiles(i)
    \/ \E i \in Inv : PersistRunning(i)
    \/ \E i \in Inv : StageStart(i)
    \/ \E i \in Inv : StageEnd(i)
    \/ \E i \in Inv : PersistCompleted(i)
    \/ \E i \in Inv : FailHandler(i)
    \/ \E i \in Inv : ReleaseLock(i)
    \/ \E i \in Inv : Return(i)
    \/ Crash
    \/ Tick

Spec == Init /\ [][Next]_vars

InitWrite == CycleIdle /\ WriteInit /\ StagesIdle /\ ServerIdle

NextWrite ==
    \/ SafeWriteCall
    \/ SafeWriteRead
    \/ SafeWriteBackupOpen
    \/ SafeWriteBackupFinish
    \/ SafeWriteTempOpen
    \/ SafeWriteTempFinish
    \/ SafeWriteRename
    \/ SafeWriteDirectOpen
    \/ SafeWriteDirectFinish
    \/ SafeWriteUnlinkBackup
    \/ SafeWriteCatch
    \/ SafeWriteRestoreOpen
    \/ SafeWriteRestoreFinish
    \/ SafeWriteFinally
    \/ SafeWriteCrash

SpecWrite == InitWrite /\ [][NextWrite]_vars

InitCleaner ==
    /\ CycleIdle /\ WriteIdle
    /\ CleanerInit /\ PublisherIdle /\ PurgerIdle /\ ScraperIdle /\ RunIdle /\ ServerIdle

NextCleaner ==
    \/ Cleanup
    \/ \E k \in Asins : ItemStored(k)
    \/ \E k \in Asins : ItemPurged(k)

SpecCleaner == InitCleaner /\ [][NextCleaner]_vars

InitPublish ==
    /\ CycleIdle /\ WriteInit
    /\ CleanerIdle /\ PublisherInit /\ PurgerIdle /\ ScraperIdle /\ RunIdle /\ ServerIdle

NextPublish ==
    \/ PublishStart
    \/ SafeWriteRead
    \/ SafeWriteBackupOpen
    \/ SafeWriteBackupFinish
    \/ SafeWriteTempOpen
    \/ SafeWriteTempFinish
    \/ SafeWriteRename
    \/ SafeWriteUnlinkBackup
    \/ SafeWriteCatch
    \/ SafeWriteRestoreOpen
    \/ SafeWriteRestoreFinish
    \/ SafeWriteFinally
    \/ PublishReturn

SpecPublish == InitPublish /\ [][NextPublish]_vars

InitPurge ==
    /\ CycleIdle /\ WriteIdle
    /\ CleanerIdle /\ PublisherIdle /\ PurgerInit /\ ScraperIdle /\ RunIdle /\ ServerIdle

NextPurge == Purge

SpecPurge == InitPurge /\ [][NextPurge]_vars

InitScrape ==
    /\ CycleIdle /\ WriteIdle
    /\ CleanerIdle /\ PublisherIdle /\ PurgerIdle /\ ScraperInit /\ RunIdle /\ ServerIdle

NextScrape ==
    \/ \E u \in Urls, b \in ScrapedBsr : ScrapeSuccess(u, b)
    \/ \E u \in Urls : ScrapeFailure(u)

SpecScrape == InitScrape /\ [][NextScrape]_vars

InitRun ==
    /\ CycleIdle /\ WriteIdle
    /\ CleanerIdle /\ PublisherIdle /\ PurgerIdle /\ ScraperIdle /\ RunInit /\ ServerIdle

NextRun ==
    \/ RunScrape
    \/ RunPurge
    \/ RunCleanup
    \/ RunPublish

SpecRun == InitRun /\ [][NextRun]_vars

InitSubmit ==
    /\ CycleIdle /\ WriteIdle /\ StagesIdle
    /\ SubmitInit /\ HandlersIdle /\ AcquireIdle /\ FetchIdle /\ MatchIdle

NextSubmit ==
    \/ \E r \in Req : SubmitUrl(r)
    \/ \E r \in Req : SubmitLimit(r)
    \/ \E r \in Req : SubmitRead(r)
    \/ \E r \in Req : SubmitBackupRead(r)
    \/ \E r \in Req : SubmitBackupOpen(r)
    \/ \E r \in Req : SubmitBackupFinish(r)
    \/ \E r \in Req : SubmitWriteOpen(r)
    \/ \E r \in Req : SubmitWriteFinish(r)
    \/ \E r \in Req : SubmitUnlink(r)
    \/ \E r \in Req : SubmitRestoreRead(r)
    \/ \E r \in Req : SubmitRestoreOpen(r)
    \/ \E r \in Req : SubmitRestoreFinish(r)
    \/ \E r \in Req : SubmitWait(r)

SpecSubmit == InitSubmit /\ [][NextSubmit]_vars

InitHandlers ==
    /\ CycleIdle /\ WriteIdle /\ StagesIdle
    /\ SubmitIdle /\ HandlersInit /\ AcquireIdle /\ FetchIdle /\ MatchIdle

NextHandlers ==
    \/ HandlersCycleLock
    \/ HandlersCycleStart
    \/ HandlersCycleStage
    \/ HandlersCycleEnd
    \/ HandlersCycleRelease
    \/ HandlerRequest
    \/ HandlerStage
    \/ HandlerAnswer

SpecHandlers == InitHandlers /\ [][NextHandlers]_vars


InitAcquire ==
    /\ CycleIdle /\ WriteIdle /\ StagesIdle
    /\ SubmitIdle /\ HandlersIdle /\ AcquireInit /\ FetchIdle /\ MatchIdle

NextAcquire ==
    \/ AcquireRead
    \/ AcquireWriteOpen
    \/ AcquireWriteFinish
    \/ AcquireScrape
    \/ AcquirePurge
    \/ AcquireCrash

SpecAcquire == InitAcquire /\ [][NextAcquire]_vars

InitFetch == CycleIdle /\ WriteIdle /\ StagesIdle /\ ServerIdle

NextFetch ==
    \/ FetchStart
    \/ \E k \in Levels, kind \in Kinds : FetchEnd(k, kind)
    \/ \E k \in Levels : FetchRetry(k)

SpecFetch == InitFetch /\ [][NextFetch]_vars

\* fetchPage() with redirect chains of any length. Every request ends: the
\* response arrives, or 'error' fires, or the 15 s timeout fires
\* (scraper.js:102, 192-199); every delay() timer fires (setTimeout). What
\* the server answers is not constrained. The request whose timeout makes
\* destroy() emit 'error' as well is left to SpecFetch.
LiveKinds == Kinds \ {"timeoutAndError"}

NextFetchLive ==
    \/ FetchStart
    \/ \E k \in Levels, kind \in LiveKinds : FetchEnd(k, kind)
    \/ \E k \in Levels : FetchRetry(k)
    \/ \E k \in Levels : FetchRedirectOn(k)

FairFetch ==
    /\ \A k \in Levels :
          WF_vars((\E kind \in LiveKinds : FetchEnd(k, kind))
                      \/ FetchRedirectOn(k))
    /\ \A k \in Levels : WF_vars(FetchRetry(k))

SpecFetchLive == InitFetch /\ [][NextFetchLive]_vars /\ FairFetch

InitMatch ==
    /\ CycleIdle /\ WriteIdle /\ StagesIdle
    /\ SubmitIdle /\ HandlersIdle /\ AcquireIdle /\ FetchIdle /\ MatchInit

NextMatch == MatchAuthor

SpecMatch == InitMatch /\ [][NextMatch]_vars

\* ---------------------------------------------------------------- helpers
Range(q) == {q[k] : k \in 1 .. Len(q)}

IsPrefix(p, q) == Len(p) <= Len(q) /\ \A k \in 1 .. Len(p) : p[k] = q[k]

\* the invocation is between lock creation and lock release
Holding(i) ==
    pc[i] \in {"init", "persistRunning", "stage", "inStage",
               "persistCompleted", "fail", "release"}

LockAge == now - lock.mtime

TypeOK ==
    /\ now \in 0 .. (MaxTicks * TickMs)
    /\ lock.exists \in BOOLEAN
    /\ docs \subseteq OtherDocs
    /\ \A i \in Inv : Len(stageLog[i]) <= Len(StageOrder)
    /\ wcalls \in 0 .. MaxCalls

\* ------------------------------------------------------------------ claims

\* C1: of two overlapping cycle() invocations at most one is ever between
\* lock creation and lock release.
C1_SingleFlight ==
    \A i, j \in Inv : i # j => ~(Holding(i) /\ Holding(j))

C3_LockReleasedOnReturn ==
    \A i \in Inv : (pc[i] = "done" /\ created[i]) => released[i]

\* C4 (as claimed): after an invocation returns failure because a stage
\* reported failure, the cycle_status it left in metadata.json is 'failed'
\* with the error message, never 'running'.
C4_FailedStatusAlways ==
    \A i \in Inv :
        (pc[i] = "done" /\ failedAt[i] # 0 /\ lastWriter = i)
            => meta = [state |-> "failed", error |-> err[i]]


\* C5: within one cycle the stages start in the order clean, acquire
\* (scrape), filter (purge), publish.
C5_StagesInDocumentedOrder ==
    \A i \in Inv :
        IsPrefix(stageLog[i], <<"cleanup", "scrape", "purge", "publish">>)

C7_CrashLeavesOldOrNew ==
    wout = "crashed" => wpath \in {wpre, wdata}

\* C8 (as claimed): when the temp-file write or the rename fails and a
\* backup exists, the call ends with the target holding its pre-call
\* content and throws the original error.
C8_RestoreAlways ==
    (/\ wout = "threw"
     /\ wvariant = "atomic"
     /\ wfailAt \in {"temp", "rename"}
     /\ wbackup # Absent)
        => (wpath = wpre /\ wthrown = "orig")

\* C8 (amended): when the temp-file write or the rename fails after the
\* call backed up the existing target, and the restoring copy succeeds, the
\* call ends with the target holding its pre-call content and throws the
\* original error; if the restoring copy fails, the restore error is thrown.
C8_RestoreIfCopySucceeds ==
    (/\ wout = "threw"
     /\ wvariant = "atomic"
     /\ wfailAt \in {"temp", "rename"}
     /\ wpre # Absent)
        => /\ wrestore # "none"
           /\ wrestore = "ok" => (wpath = wpre /\ wthrown = "orig")
           /\ wrestore = "failed" => wthrown = "restore"

C8_Witness ==
    /\ wout = "threw"
    /\ wvariant = "atomic"
    /\ wfailAt = "rename"
    /\ wrestore = "ok"
    /\ wpre = Doc(0)
    /\ wpath = Doc(0)

\* the failure points that C9 enumerates before the release of the lock
EarlyFaults == {"create", "init", "stage", "status"}

\* C9 (as claimed): cycle() never throws; a failure injected at lock
\* creation, file initialisation, a stage, status persistence or lock release
\* yields success:false with an error message; with no failure the result
\* is success:true with stats.
C9_EveryFaultFails ==
    \A i \in Inv :
        pc[i] = "done" =>
            /\ ~result[i].threw
            /\ faults[i] # {} => (~result[i].success /\ result[i].error # "")
            /\ (faults[i] = {} /\ result[i] # LockedResult)
                => (result[i].success /\ result[i].stats = "stats")

\* C9 (amended): cycle() never throws; a failure at lock creation, file
\* initialisation, a stage or status persistence yields success:false with
\* an error message; a failure at lock release is swallowed and leaves the
\* result as it was, so an invocation with no earlier failure returns
\* success:true with stats.
C9_NeverThrows ==
    \A i \in Inv :
        pc[i] = "done" =>
            /\ ~result[i].threw
            /\ faults[i] \cap EarlyFaults # {}
                => (~result[i].success /\ result[i].error # "")
            /\ (faults[i] \cap EarlyFaults = {} /\ result[i] # LockedResult)
                => (result[i].success /\ result[i].stats = "stats")

C9_Witness ==
    \E i \in Inv :
        /\ pc[i] = "done"
        /\ faults[i] = {"release"}
        /\ result[i] = SuccessResult
        /\ lock.exists

\* C10: once a stage of a cycle has reported failure, no later stage of
\* that cycle is started, 'completed' is not persisted by it and it returns
\* a failure result.
C10_FailureAbortsCycle ==
    \A i \in Inv :
        failedAt[i] # 0 =>
            /\ Len(stageLog[i]) = failedAt[i]
            /\ pc[i] \in {"fail", "release", "done", "idle"}
            /\ "completed" \notin Range(persisted[i])
            /\ pc[i] = "done" => ~result[i].success

C10_Witness ==
    \E i \in Inv :
        /\ pc[i] = "done"
        /\ failedAt[i] = 2
        /\ stageLog[i] = <<"scrape", "purge">>
        /\ ~result[i].success

\* C11: a submission whose key is never in the item database at a cleanup
\* run is removed by its third (successful) cleanup run, not by the first or
\* second and not later; a submission whose key is in the item database at
\* a cleanup run is kept with failed_attempts 0.
C11_RemovedOnThirdRun ==
    \A u \in Urls :
        extractASIN(u) # NoAsin =>
            /\ (clLastSeen[u] # "none" /\ ~clEverPresent[u])
                => (u \in QueueUrls <=> clAbsentRuns[u] < RemovalThreshold)
            /\ clLastSeen[u] = "present"
                => \E k \in 1 .. Len(clInput) :
                      clInput[k].url = u /\ FailedAttempts(clInput[k]) = 0

\* C12: whenever publish() returns success, books.json holds the document
\* handed to safeWriteJSON and its ranks are exactly 1..N, N the number of
\* published entries, whatever rank values the item database holds.
C12_RanksOneToN ==
    (pbPc = "done" /\ pbResult.success) =>
        /\ wpath = wdata
        /\ Ranks(BooksJson.books) = 1 .. Len(BooksJson.books)

C12_Witness ==
    /\ pbPc = "done"
    /\ pbResult.success
    /\ wpath = wdata
    /\ Len(BooksJson.books) = 1
    /\ BooksJson.books[1].bsr = BsrNegative
    /\ \E k \in 1 .. Len(pbMetadata.books) :
          pbMetadata.books[k].book.bsr = BsrText

\* C13: when the item database holds no items, publish() returns success
\* and books.json holds an artifact whose books mapping is empty.
C13_EmptyDatabasePublishes ==
    (pbPc = "done" /\ pbMetadata.readable /\ pbMetadata.books = <<>>) =>
        /\ pbResult.success
        /\ wpath = wdata
        /\ BooksJson.books = <<>>

\* C14: when publish() returns success:false, books.json holds the content
\* it had before the call; when it returns success, books.json holds the
\* complete validated artifact.
C14_AllOrNothing ==
    pbPc = "done" =>
        /\ ~pbResult.success => wpath = wpre
        /\ pbResult.success => (wpath = wdata /\ BooksJson = pbOutput)

\* the deciding evaluation of isBlacklisted (a match, a throw, or none) for
\* every item, blacklist.json content and variant of the model
Decisions ==
    [v \in PurgerVariants |->
        [f \in BlacklistFiles |->
            [b \in PurgerBooks |->
                Decide(b, LoadBlacklist(f, v).blacklist, v)]]]

\* C15: in a purge() run of purger.js without I/O failure, purge() succeeds;
\* an item for which a predicate evaluation throws is removed with reason
\* error_during_check, and every other item is removed exactly if one of
\* its own evaluations matches, with that match's reason and pattern.
C15_ThrowingItemRejected ==
    (puVariant = "scripts/purger.js" /\ puRunCount > 0 /\ puFault = "none") =>
        /\ puResult.success
        /\ Len(puOutcome) = Len(puPre)
        /\ \A k \in 1 .. Len(puPre) :
              LET d == Decisions[puVariant][puBlacklist][puPre[k].book]
                  kept == \E j \in 1 .. Len(puBooks) : puBooks[j] = puPre[k]
              IN  /\ d.out = "throw" =>
                        /\ ~kept
                        /\ puOutcome[k].reason = "error_during_check"
                  /\ d.out = "match" =>
                        /\ ~kept
                        /\ puOutcome[k].reason = d.reason
                        /\ puOutcome[k].matchedPattern = d.pattern
                  /\ d.out = "none" => kept

C15_Witness ==
    /\ puVariant = "scripts/purger.js"
    /\ puRunCount = 1
    /\ puResult.success
    /\ Len(puPre) = 2
    /\ puPre[1].book = Book(TitleT, Num, BsrPlain)
    /\ puOutcome[1].reason = "error_during_check"
    /\ puBooks = <<puPre[2]>>
    /\ puPre[2].book = Book(TitleParty, AuthorOther, BsrPlain)

\* C16: when blacklist.json does not exist, a purge() run without I/O
\* failure reports success and removes no item from the item database.
C16_MissingBlacklistRemovesNothing ==
    (puBlacklist.state = "missing" /\ puRunCount > 0 /\ puFault = "none") =>
        /\ puResult.success
        /\ puBooks = puPre

\* C20: for every key acquired successfully at least once, the stored item
\* has the first_seen set at the first success, and its history holds one
\* {timestamp, rank value} entry for each later success, in order.
C20_FirstSeenKeptHistoryGrows ==
    \A k \in Asins :
        scFirst[k] # <<>> =>
            /\ HasKey(scBooks, k)
            /\ scBooks[PositionOf(scBooks, k)].first_seen = scFirst[k]
            /\ scBooks[PositionOf(scBooks, k)].history = <<scLater[k]>>

\* C17: a cycle without I/O failure that starts from a queue with one valid
\* submission whose key is not in the item database, acquires title 'T',
\* author 'A' and rank value 1,234 for it and finds a blacklist document with
\* empty lists, ends with the item kept by the filter and with a published
\* leaderboard holding exactly that item, with rank 1 and rank value 1234.
C17_EndToEnd ==
    (/\ ruStart.queue = <<Submission(Url1)>>
     /\ ruStart.books = <<>>
     /\ ruAcquired[Url1] =
            Acquisition(Book(TitleT, AuthorA, StoredBsr(BsrComma)))
     /\ ruBlacklist = EmptyListsFile
     /\ ruFault = "none"
     /\ ruPc \in {"done", "failed"})
        => /\ ruPc = "done"
           /\ Keys(ruBooks) = {extractASIN(Url1)}
           /\ Len(ruPublished.books) = 1
           /\ ruPublished.books[1].asin = extractASIN(Url1)
           /\ ruPublished.books[1].rank = 1
           /\ ruPublished.books[1].bsr = Bsr1234

\* C18: when two /submit-url requests carrying different valid URLs have
\* both been answered with success, input.json holds both submissions.
C18_BothSubmissionsStored ==
    (/\ \A r \in Req : sbPc[r] = "done" /\ sbAnswer[r] = "success"
     /\ sbReq["r1"].url # sbReq["r2"].url)
        => /\ sbFile.kind = "doc"
           /\ \A r \in Req : AlreadySubmitted(sbFile.subs, sbReq[r].url)

\* C19: while a cycle is between lock creation and lock release, no
\* standalone handler writes the item database or an auxiliary document.
C19_NoHandlerWriteWhileLocked == hdOverlap = {}

\* C21: once scrape() of scraper.js:491 has returned success, the key of a
\* processed submission is in the item database only if the attempt was
\* classified success on a page with every required field.
C21_KeyOnlyIfLatestAttemptSucceeded ==
    (aqVariant = "scraper.js:442" /\ aqPc = "done" /\ aqResult = "success") =>
        \A i \in 1 .. Len(aqQueue) :
            extractASIN(aqQueue[i]) \in aqDisk.keys =>
                aqClass[i] = "success" /\ aqPage[i] = FullPage

\* C22: a crash while scrapeBook works on submission i, with no I/O failure
\* before it, leaves in metadata.json the key of every earlier submission
\* that was classified success.
C22_CrashKeepsEarlierResults ==
    (aqPc = "crashed" /\ aqFaults = {"crash:scrape"}) =>
        \A j \in 1 .. aqIndex - 1 :
            aqClass[j] = "success" =>
                extractASIN(aqQueue[j]) \in aqDisk.keys

\* C26: a processed submission whose URL holds no 10-character item key is
\* classified invalid key, and fetchPage was not called for it.
C26_InvalidKeyWithoutRequest ==
    \A i \in 1 .. Len(aqQueue) :
        (/\ aqClass[i] # "none"
         /\ aqQueue[i] # UrlUndefined
         /\ extractASIN(aqQueue[i]) = NoAsin) =>
            /\ aqClass[i] \in {"invalid_asin", "Invalid ASIN in URL"}
            /\ i \notin aqRequested

\* C27: in scrape() of scraper.js:491, when the reads and the first and last
\* write of metadata.json succeed, whatever failed for single submissions
\* (rejected fetch, missing field, failed write of metadata.json after the
\* submission), every submission of the queue has been processed once the
\* stage has ended, and scrape() returned success.
C27_SubmissionFailureNeverAborts ==
    (/\ aqVariant = "scraper.js:442"
     /\ aqPc = "done"
     /\ aqFaults \cap {"read", "init", "final"} = {}) =>
        /\ aqResult = "success"
        /\ \A i \in 1 .. Len(aqQueue) : aqClass[i] # "none"

\* the write after the first submission failed, its fetch was rejected, and
\* the second submission was still scraped with success
C27_Witness ==
    /\ aqVariant = "scraper.js:442"
    /\ aqPc = "done"
    /\ aqResult = "success"
    /\ aqFaults = {"sub"}
    /\ Len(aqQueue) = 2
    /\ aqClass[1] = "network_error"
    /\ aqClass[2] = "success"

\* C23: for every invocation of cycle(), the cycle_status states it has
\* persisted are a prefix of running, completed: 'running' is on record
\* before its first stage starts, 'completed' is on record only when all four
\* stages have returned success, and 'completed' and 'failed' are never both
\* on record.
C23_StatusStateMachine ==
    \A i \in Inv :
        /\ persisted[i] \in {<<>>, <<"running">>, <<"running", "completed">>,
                             <<"running", "failed">>}
        /\ stageLog[i] # <<>> => persisted[i] # <<>>
        /\ "completed" \in Range(persisted[i]) =>
              /\ stageLog[i] = StageOrder
              /\ failedAt[i] = 0
              /\ pc[i] \notin {"stage", "inStage", "fail"}
        /\ ~("completed" \in Range(persisted[i])
             /\ "failed" \in Range(persisted[i]))

\* an invocation has returned after persisting running and then completed
C23_Witness ==
    \E i \in Inv :
        /\ pc[i] = "done"
        /\ persisted[i] = <<"running", "completed">>
        /\ stageLog[i] = StageOrder

\* C24: when fetchPage has rejected and every request ended in HTTP 429/503,
\* a network error, a timeout or a challenge page, at most maxRetries + 1
\* requests were issued, the delay baseDelay * 2^k was waited before the
\* retry that followed attempt k, and scrapeBook returned network_error.
C24_BoundedRetriesThenNetworkError ==
    (fpSettled = "rejected" /\ fpKinds \subseteq Failing) =>
        /\ Attempts <= maxRetries + 1
        /\ \A k \in 0 .. maxRetries - 1 : fpWaited[k] = delayTime(k)
        /\ fpClass = "network_error"

\* C25: at most one page request of fetchPage is outstanding at any time.
C25_OneRequestOutstanding == Outstanding <= 1

\* C28: a cleanup run that succeeds and writes the cleanup log appends, after
\* the entries already stored, exactly one entry per removed submission, in
\* queue order, with the submission's url and the reason for which the filter
\* removed it (invalid_asin or failed_or_purged).
C28_EachRemovalLoggedWithItsReason ==
    [][(clRunCount' = clRunCount + 1 /\ clResult' /\ clLog' # clLog) =>
          LET rs == [k \in 1 .. Len(clInput) |->
                        CleanOne(clInput[k], clBooks, clVariant)]
              removed == RemovedSubmissions(rs)
          IN  clLog' = clLog \o [j \in 1 .. Len(removed) |->
                                   [url |-> removed[j].sub.url,
                                    reason |-> removed[j].reason]]]_vars

\* C29: in every purge() run of purger.js that returns success, the keys
\* removed from the item database are exactly the keys of the records the
\* run appended to the rejected_books of brownlist.json.
C29_RemovedKeysAreRecordedKeys ==
    [][(/\ puVariant = "scripts/purger.js"
        /\ puRunCount' = puRunCount + 1
        /\ puResult' = PurgeSuccess) =>
          /\ IsPrefix(puBrownlist, puBrownlist')
          /\ Keys(puBooks) \ Keys(puBooks') =
                {puBrownlist'[j].asin :
                    j \in Len(puBrownlist) + 1 .. Len(puBrownlist')}]_vars

\* C30: a purge() run of purger.js leaves every record that brownlist.json
\* held before the run in place and in order.
C30_BrownlistAppendOnly ==
    [][(puVariant = "scripts/purger.js" /\ puRunCount' = puRunCount + 1) =>
          IsPrefix(puBrownlist, puBrownlist')]_vars

\* for every blacklist.json content and item of the model, under purger.js:
\* the first authors entry the item's author matches (0 if none, or if an
\* earlier evaluation throws) and whether some title pattern matches
MatchesOf ==
    [f \in BlacklistFiles |->
        [b \in PurgerBooks |->
            LET bl == LoadBlacklist(f, "scripts/purger.js").blacklist
                acs == [k \in 1 .. Len(bl.authors) |->
                          AuthorCheck(b, bl.authors[k], "blacklisted_author",
                                      "scripts/purger.js")]
                tcs == TitleChecks(b.title, bl.title_patterns,
                                   "blacklisted_title_pattern",
                                   "scripts/purger.js")
                hits == {k \in 1 .. Len(acs) : acs[k].out # "none"}
                first == IF hits = {} THEN 0
                         ELSE CHOOSE a \in hits : \A c \in hits : a <= c
            IN  [author |-> IF first # 0 /\ acs[first].out = "match"
                            THEN first ELSE 0,
                 entry |-> IF first # 0 THEN bl.authors[first] ELSE Undefined,
                 title |-> \E k \in 1 .. Len(tcs) : tcs[k].out = "match"]]]

C32_TitlePatternWholeWordOnly ==
    (puVariant = "scripts/purger.js" /\ Len(puOutcome) = Len(puPre)) =>
        \A k \in 1 .. Len(puPre) :
            puOutcome[k].reason = "blacklisted_title_pattern" =>
                WholeWordMatch(normalizeString(puPre[k].book.title),
                               normalizeString(puOutcome[k].matchedPattern))

\* the match as the claim words it: equal normalized names, or one
\* containing the other, or equal last tokens longer than three characters
NamesMatch(a, b) ==
    LET x == normalizeString(a)
        y == normalizeString(b)
    IN  \/ x = y
        \/ Includes(x, y)
        \/ Includes(y, x)
        \/ LastToken(x) = LastToken(y) /\ Len(LastToken(x)) > LastNameLength

ValidEntries ==
    {k \in 1 .. Len(pbMetadata.books) :
        /\ Len(pbMetadata.books[k].asin) >= AsinLength
        /\ isValidBook(pbMetadata.books[k].book)}

\* C34: when the item database holds at least one fully valid item together
\* with items whose rank value is unparseable or whose title is empty,
\* publish() does not fail in validation, and when it returns success
\* books.json holds exactly the valid items, ranked 1..N.
C34_InvalidItemsDroppedNotFatal ==
    (/\ pbPc = "done"
     /\ pbMetadata.readable
     /\ ValidEntries # {}
     /\ ValidEntries # 1 .. Len(pbMetadata.books)) =>
        /\ pbResult.success \/ pbResult.error = "Failed to write output file"
        /\ pbResult.success =>
              /\ {BooksJson.books[j].asin : j \in 1 .. Len(BooksJson.books)}
                    = {pbMetadata.books[k].asin : k \in ValidEntries}
              /\ Ranks(BooksJson.books) = 1 .. Cardinality(ValidEntries)

\* the integer a rank value stands for, thousands separators ignored; <<>>
\* when it stands for none
RankValue(book) == parseInt(StripCommas(book.bsr))

\* C35: in every published leaderboard an entry with a lower rank has a
\* numeric rank value no greater than that of an entry with a higher rank,
\* "1,234" counting as 1234; and in the ranking publish() computes, an item
\* with an unparseable rank value is never ranked before an item with a
\* parseable one.
C35_RanksFollowRankValues ==
    /\ (pbPc = "done" /\ pbResult.success) =>
          \A i, j \in 1 .. Len(BooksJson.books) :
              BooksJson.books[i].rank < BooksJson.books[j].rank =>
                  /\ ~isNaN(RankValue(BooksJson.books[i]))
                  /\ ~isNaN(RankValue(BooksJson.books[j]))
                  /\ RankValue(BooksJson.books[i])[1]
                        <= RankValue(BooksJson.books[j])[1]
    /\ (pbPc = "done" /\ pbMetadata.readable) =>
          LET ranked == transformToOutput(pbMetadata).books
          IN  \A i, j \in 1 .. Len(ranked) :
                  (isNaN(RankValue(ranked[i])) /\ ~isNaN(RankValue(ranked[j])))
                      => ranked[i].rank > ranked[j].rank

C35_Witness ==
    /\ pbPc = "done"
    /\ pbResult.success
    /\ Len(pbMetadata.books) = 2
    /\ pbMetadata.books[1].book.bsr = BsrComma
    /\ Len(BooksJson.books) = 2
    /\ BooksJson.books[1].bsr = BsrPlain
    /\ BooksJson.books[1].rank = 1
    /\ BooksJson.books[2].bsr = BsrComma

\* C36: an invocation removes the lock file only if the file was written by
\* its own createLock: when cycle.lock was written by a cycle that took over
\* after the staleness ceiling, the step of releaseLock that unlinks it is
\* taken by that cycle and not by the cycle it took over from.
C36_ReleaseOnlyOwnLock ==
    [][\A i \in Inv :
          (/\ pc[i] = "release"
           /\ lock.exists
           /\ ~lock'.exists
           /\ lock.owner \in Inv
           /\ tookOver[lock.owner])
              => lock.owner = i]_vars

\* C37: publish() reads the item database the acquisition and filter
\* stages write: after a cycle that returns success every published key is
\* a key of the item database as the filter stage left it, so no item the
\* filter removed in that cycle is published.
C37_PublishedFromItemDatabase ==
    ruPc = "done" =>
        {ruPublished.books[k].asin : k \in 1 .. Len(ruPublished.books)}
            \subseteq Keys(ruBooks)

\* C38: every fetchPage call eventually settles, whatever the server
\* answers, redirect chains of any length included.
C38_FetchEventuallySettles == (Attempts > 0) ~> (fpSettled # "pending")

\* C39: when the creation of the backup fails inside safeWriteJSON of
\* cleaner.js / publisher.js after the original was read, the call throws
\* and the document at path holds exactly its pre-call content.
C39_BackupFailureKeepsOriginal ==
    (wout = "threw" /\ wvariant = "atomic" /\ wfailAt = "backup")
        => wpath = wpre

\* C40: while input.json does not exist, a /submit-url request with a valid
\* URL that reaches the limiter check (limiter enabled, not bypassed) passes
\* it and goes on to store the submission; and a request answered with
\* success leaves a queue document that holds its submission.
C40_FirstSubmissionCreatesQueue ==
    [][\A r \in Req :
          /\ (/\ sbPc[r] = "limit"
              /\ sbFile.kind = "absent"
              /\ sbPc'[r] # "limit")
                => (sbPc'[r] = "read" /\ sbAnswer'[r] = "none")
          /\ (sbAnswer[r] # "success" /\ sbAnswer'[r] = "success")
                => (/\ sbFile'.kind = "doc"
                    /\ AlreadySubmitted(sbFile'.subs, sbReq[r].url))]_vars

====
